---- MODULE Spec2Model ----
(***************************************************************************)
(* A model of the GeckoTerminal client of dex-analyzer                     *)
(* (src/src/clients/geckoterminal.py): the sliding-window rate limiter,    *)
(* the request wrapper, the forward page loop of the pool listing and the  *)
(* backward pagination of the OHLCV history with its normalisation.        *)
(*                                                                         *)
(* Time is counted in milliseconds, so that the three durations of the     *)
(* code (60 s, 1 s, 0.2 s) are integers.  A behaviour is one client: after *)
(* construction it serves either a sequence of direct make_request calls   *)
(* at arbitrary arrival times, or one run of a public operation.           *)
(***************************************************************************)
EXTENDS Integers, Sequences, FiniteSets, TLC

VARIABLES
    now,            \* time.time(), in ms
    calls,          \* self.calls: the limiter's log of call timestamps
    issued,         \* history: the times the last requests were sent upstream
    check,          \* history: the locals of the last _rate_limit_check
    outcome,        \* history: what the upstream did with the last request
    response,       \* the value the last _make_request returned
    raised,         \* the exception that left the last call ("" when none)
    mode,           \* what the client is used for in this behaviour
    pc,             \* the position of the running operation
    args,           \* the arguments of the running operation
    sent,           \* history: the page / before_timestamp of each request
    received,       \* history: the records each request brought
    page,           \* _get_all_pages: the loop variable
    all_results,    \* _get_all_pages: the records accumulated
    pools_data,     \* fetch_liquidity_pools: the raw pool records
    before_timestamp, \* get_price_bars: params["before_timestamp"]
    all_ohlcv_list, \* get_price_bars: the rows accumulated
    result,         \* the value the operation returned
    combined,       \* history: the local 'combined' of the last alignment
    frames          \* the DataFrames of the caller after the last analysis

rateVars == <<now, calls, issued, check>>
reqVars == <<outcome, response, raised>>
histVars == <<sent, received>>
poolVars == <<page, all_results, pools_data>>
barVars == <<before_timestamp, all_ohlcv_list>>
vars == <<now, calls, issued, check, outcome, response, raised, mode, pc, args,
          sent, received, page, all_results, pools_data, before_timestamp,
          all_ohlcv_list, result, combined,
          frames>>

(***************************************************************************)
(* Bounds of the model.                                                    *)
(***************************************************************************)
\* self.rate_limit; the client configures 30, the model explores a small one
rate_limit == 2
\* self.max_pages; the client configures 10, the model explores a small one
max_pages == 3
\* the newest timestamp (s) of a bar the OHLCV upstream holds
MaxTs == 2
\* the requests a run against an arbitrary OHLCV upstream is followed for (a
\* run against an upstream that honours before_timestamp is followed for
\* MaxTs + 2 requests, more than it can make)
MaxRequests == 2
\* direct calls are explored up to this clock value (ms)
MaxTime == 125000
\* the longest list of pairs handed to filter_pairs
MaxPairs == 2
\* the bars the upstream of the Moralis and CoinGecko fetchers holds
MaxUpstreamBars == 2
\* the pages of a Moralis run that name a next page
MaxMorePages == 1
\* the latest timestamp of the series handed to the correlation and the beta
MaxT == 4
\* the longest frame handed to the volume and the volatility metrics
MaxRows == 3
MaxHours == 4
\* the longest listing the Meteora upstream answers with
MaxRecords == 3

(***************************************************************************)
(* Durations of the code, in ms.                                           *)
(***************************************************************************)
WINDOW == 60000
PAGE_DELAY == 200
BARS_DELAY == 1000

\* the gaps between two direct calls that the model explores (ms)
Delays == {15000, 30000, 60000}

(***************************************************************************)
(* Python values.  A dict over the keys the client reads is a record that  *)
(* lists the keys it holds; a key it does not hold keeps a filler value,   *)
(* so that two dicts are equal exactly when the records are.               *)
(***************************************************************************)
EmptyDict ==
    [keys |-> {}, error |-> "", data |-> <<>>, attributes |-> FALSE,
     ohlcv_list |-> <<>>]

\* {"error": "Unauthorized"}
UnauthorizedDict ==
    [EmptyDict EXCEPT !.keys = {"error"}, !.error = "Unauthorized"]

\* {"data": [pool, ...]}: a page of the pool listing
DataDict(d) == [EmptyDict EXCEPT !.keys = {"data"}, !.data = d]

\* {"meta": {...}}: a non-empty object without 'data'
MetaDict == [EmptyDict EXCEPT !.keys = {"meta"}]

\* {"data": {"attributes": {"ohlcv_list": [...]}}, "meta": {...}}
OhlcvDict(l) ==
    [EmptyDict EXCEPT !.keys = {"data", "meta"}, !.attributes = TRUE,
                      !.ohlcv_list = l]

\* {"data": {}}: the envelope without 'attributes'
NoAttributesDict == [EmptyDict EXCEPT !.keys = {"data"}]

\* Optional[int]: None is the empty tuple, an int n the tuple <<n>>
None == <<>>
Some(n) == <<n>>
\* bool(x) of an Optional[int]
TruthyInt(x) == x # None /\ x[1] # 0

\* bool(d) of a dict
Truthy(d) == d.keys # {}

(***************************************************************************)
(* _rate_limit_check                                                       *)
(***************************************************************************)
\* a purge that drops nothing
PurgedCalls_KeepsAll(cs, current_time) ==
    cs

\* line 35: the entries younger than 60 s
PurgedCalls(cs, current_time) ==
    SelectSeq(cs, LAMBDA call : current_time - call < WINDOW)

\* a limiter that lets one call too many through before it sleeps
SleepTime_OneTooMany(kept, current_time) ==
    IF Len(kept) > rate_limit
    THEN LET sleep_time == WINDOW - (current_time - kept[1])
         IN  IF sleep_time > 0 THEN sleep_time ELSE 0
    ELSE 0

\* lines 36-39: the time slept
SleepTime(kept, current_time) ==
    IF Len(kept) >= rate_limit
    THEN LET sleep_time == WINDOW - (current_time - kept[1])
         IN  IF sleep_time > 0 THEN sleep_time ELSE 0
    ELSE 0

rate_limit_check ==
    LET current_time == now
        kept == PurgedCalls(calls, current_time)
        slept == SleepTime(kept, current_time)
    IN  /\ now' = current_time + slept
        /\ calls' = Append(kept, current_time)
        /\ check' = [current_time |-> current_time, kept |-> kept,
                     slept |-> slept]

\* the last rate_limit + 1 issue times
Remember(h, t) ==
    LET all == Append(h, t)
    IN  IF Len(all) > rate_limit + 1 THEN Tail(all) ELSE all

(***************************************************************************)
(* _make_request.  What the upstream does with one request: the transport  *)
(* fails (session.get raises a RequestException), or it answers with a     *)
(* status and a JSON body.                                                 *)
(***************************************************************************)
Statuses == {200, 304, 401, 404, 500}

Outcome(transport_ok, status, body) ==
    [transport_ok |-> transport_ok, status |-> status, body |-> body]

NoOutcome == Outcome(TRUE, 200, EmptyDict)

\* a call that returned v, and a call that an exception e left
Returned(v) == [exc |-> "", value |-> v]
Raised(e) == [exc |-> e, value |-> EmptyDict]

\* the classes of requests.exceptions.RequestException the model raises
RequestExceptions == {"ConnectionError", "HTTPError"}

\* a try block without the 401 branch of lines 47-49
make_request_try_No401(o) ==
    IF ~o.transport_ok THEN Raised("ConnectionError")
    ELSE IF o.status >= 400 /\ o.status < 600 THEN Raised("HTTPError")
    ELSE Returned(o.body)

\* lines 46-51: the body of the try block
make_request_try(o) ==
    IF ~o.transport_ok THEN Raised("ConnectionError")
    ELSE IF o.status = 401 THEN Returned(UnauthorizedDict)
    ELSE IF o.status >= 400 /\ o.status < 600 THEN Raised("HTTPError")
    ELSE Returned(o.body)

\* lines 45-54: the try block under its except clause
make_request_result(o) ==
    LET r == make_request_try(o)
    IN  IF r.exc \in RequestExceptions THEN Returned(EmptyDict) ELSE r

make_request(o) ==
    /\ rate_limit_check
    /\ issued' = Remember(issued, now')
    /\ outcome' = o
    /\ response' = make_request_result(o).value
    /\ raised' = make_request_result(o).exc

\* the arguments of an operation; a field an operation does not take keeps
\* the filler of NoArgs
NoArgs ==
    [all_pages |-> FALSE, min_tvl |-> 0, min_volume |-> 0, no_pivots |-> FALSE,
     no_stables |-> FALSE, utility_pairs |-> FALSE, limit |-> 0,
     start_timestamp |-> None, end_timestamp |-> None, honest |-> FALSE,
     pairs |-> <<>>, timeframe |-> "", from_date |-> "", known_mint |-> FALSE,
     data_list |-> <<>>, token_df |-> <<>>, sol_df |-> <<>>, df |-> <<>>,
     columns |-> {}, tvl |-> 0, mean_exact |-> TRUE, responses |-> <<>>,
     timestamp_dtype |-> "datetime64"]

\* what an operation returned: a list, None, or a PriceBar around a DataFrame
NoResult == [kind |-> "running", value |-> <<>>]
ListResult(l) == [kind |-> "list", value |-> l]
NoneResult == [kind |-> "None", value |-> <<>>]
PriceBarResult(df) == [kind |-> "PriceBar", value |-> df]

\* a table: its column labels, its index and, per index entry, the row of
\* values under the columns
Table(columns, index, values) ==
    [columns |-> columns, index |-> index, values |-> values]
NoTable == Table(<<>>, <<>>, <<>>)

Init ==
    /\ now = 0
    /\ calls = <<>>
    /\ issued = <<>>
    /\ check = [current_time |-> 0, kept |-> <<>>, slept |-> 0]
    /\ outcome = NoOutcome
    /\ response = EmptyDict
    /\ raised = ""
    /\ mode = "idle"
    /\ pc = "idle"
    /\ args = NoArgs
    /\ sent = <<>>
    /\ received = <<>>
    /\ page = 1
    /\ all_results = <<>>
    /\ pools_data = <<>>
    /\ before_timestamp = None
    /\ all_ohlcv_list = <<>>
    /\ result = NoResult
    /\ combined = NoTable
    /\ frames = <<>>

\* the bodies a direct call may receive
DirectBodies == {EmptyDict, UnauthorizedDict, DataDict(<<1>>)}

\* time passes between two direct calls
Elapse ==
    /\ mode = "direct"
    /\ \E d \in Delays :
        /\ now + d <= MaxTime
        /\ now' = now + d
    /\ UNCHANGED <<calls, issued, check, reqVars, mode, pc, args, histVars,
                   poolVars, barVars, result, combined, frames>>

\* a direct call of _make_request
DirectRequest ==
    /\ mode \in {"idle", "direct"}
    /\ now <= MaxTime
    /\ \E ok \in BOOLEAN, s \in Statuses, b \in DirectBodies :
        make_request(Outcome(ok, s, b))
    /\ mode' = "direct"
    /\ UNCHANGED <<pc, args, histVars, poolVars, barVars, result,
                   combined, frames>>

(***************************************************************************)
(* _get_all_pages and fetch_liquidity_pools.                               *)
(***************************************************************************)
\* the symbol sets of the network (solana)
pivots == {"SOL", "JUP", "RAY", "JLP", "JupSOL", "JitoSOL", "dSOL"}
stablecoins == {"USDC", "USDT", "DAI", "USDE"}

\* a pool record of the listing that is a JSON object with its attributes
\* (address, name "token0 / token1", reserve_in_usd, volume_usd.h24)
Pool(address, token0, token1, tvl, volume) ==
    [raw |-> "object", address |-> address, token0_symbol |-> token0,
     token1_symbol |-> token1, tvl |-> tvl, volume |-> volume]

\* a record of the listing that is something else: JSON null ("null"), an
\* object without 'attributes' ("no_attributes"), an object whose
\* 'attributes' is null ("null_attributes")
RawPool(raw) ==
    [raw |-> raw, address |-> "", token0_symbol |-> "", token1_symbol |-> "",
     tvl |-> 0, volume |-> 0]

\* the non-empty pages the listing upstream may answer with
PoolPages ==
    { <<Pool("p1", "BONK", "WIF", 20000, 8000),
        Pool("p2", "SOL", "USDC", 20000, 8000)>>,
      <<Pool("p3", "SOL", "JUP", 20000, 8000)>>,
      <<Pool("p4", "BONK", "USDT", 5000, 100),
        Pool("p5", "JUP", "RAY", 5000, 8000)>>,
      <<Pool("p6", "BONK", "WIF", 20000, 8000), RawPool("null_attributes"),
        Pool("p7", "WIF", "POPCAT", 20000, 8000)>>,
      <<RawPool("no_attributes"), RawPool("null")>> }

\* the JSON bodies the listing upstream may answer with
PoolBodies ==
    {DataDict(l) : l \in PoolPages} \cup {DataDict(<<>>), EmptyDict, MetaDict}

PoolOutcomes ==
    {Outcome(TRUE, 200, b) : b \in PoolBodies}
        \cup {Outcome(FALSE, 200, EmptyDict), Outcome(TRUE, 401, EmptyDict),
              Outcome(TRUE, 500, EmptyDict)}

\* a loop condition that goes on after a page with an empty 'data'
PageLoopBreaks_EmptyDataGoesOn(r) ==
    ~Truthy(r) \/ "data" \notin r.keys

\* line 62: the condition that breaks the page loop
PageLoopBreaks(r) ==
    ~Truthy(r) \/ "data" \notin r.keys \/ r.data = <<>>

\* filters whose utility branch comes before the minimums
Retained_UtilityBypassesMinimums(pool, a) ==
    IF a.utility_pairs
    THEN pool.token0_symbol \in pivots /\ pool.token1_symbol \in pivots
    ELSE /\ ~(pool.tvl < a.min_tvl \/ pool.volume < a.min_volume)
         /\ ~(a.no_pivots /\ (pool.token0_symbol \in pivots
                              \/ pool.token1_symbol \in pivots))
         /\ ~(a.no_stables /\ (pool.token0_symbol \in stablecoins
                               \/ pool.token1_symbol \in stablecoins))

\* filters that apply no_pivots to the utility pairs too
Retained_UtilityObeysNoPivots(pool, a) ==
    /\ ~(pool.tvl < a.min_tvl \/ pool.volume < a.min_volume)
    /\ a.utility_pairs =>
          (pool.token0_symbol \in pivots /\ pool.token1_symbol \in pivots)
    /\ ~(a.no_pivots /\ (pool.token0_symbol \in pivots
                         \/ pool.token1_symbol \in pivots))
    /\ ~a.utility_pairs =>
          ~(a.no_stables /\ (pool.token0_symbol \in stablecoins
                             \/ pool.token1_symbol \in stablecoins))

\* lines 130-142: the filters a pool has to pass
Retained(pool, a) ==
    /\ ~(pool.tvl < a.min_tvl \/ pool.volume < a.min_volume)
    /\ IF a.utility_pairs
       THEN pool.token0_symbol \in pivots /\ pool.token1_symbol \in pivots
       ELSE /\ ~(a.no_pivots /\ (pool.token0_symbol \in pivots
                                 \/ pool.token1_symbol \in pivots))
            /\ ~(a.no_stables /\ (pool.token0_symbol \in stablecoins
                                  \/ pool.token1_symbol \in stablecoins))

\* lines 106-128 and 144-152: the LiquidityPair of a pool record, or the
\* exception the attribute parsing raises (pool.get on a record that is no
\* dict, attributes.get on a null); defaults fill what an object lacks
parse_pool(pool) ==
    IF pool.raw \in {"null", "null_attributes"}
    THEN [exc |-> "AttributeError", pair |-> <<>>]
    ELSE IF pool.raw = "no_attributes"
    THEN [exc |-> "",
          pair |-> [address |-> "", token0_symbol |-> "UNKNOWN",
                    token1_symbol |-> "UNKNOWN", tvl |-> 0, volume |-> 0]]
    ELSE [exc |-> "",
          pair |-> [address |-> pool.address,
                    token0_symbol |-> pool.token0_symbol,
                    token1_symbol |-> pool.token1_symbol,
                    tvl |-> pool.tvl, volume |-> pool.volume]]

\* lines 103-156: the pairs built from the raw pool records; a record whose
\* parsing raises is left out by the except clause of line 154
Pairs(data, a) ==
    LET kept == SelectSeq(data, LAMBDA pool :
                    /\ parse_pool(pool).exc = ""
                    /\ Retained(parse_pool(pool).pair, a))
    IN  [i \in 1..Len(kept) |-> parse_pool(kept[i]).pair]

\* the call of fetch_liquidity_pools
FetchPoolsCall ==
    /\ mode = "idle"
    /\ \E all \in BOOLEAN, tvl \in {0, 10000}, vol \in {0, 5000},
          np \in BOOLEAN, ns \in BOOLEAN, up \in BOOLEAN :
        args' = [NoArgs EXCEPT !.all_pages = all, !.min_tvl = tvl,
                               !.min_volume = vol, !.no_pivots = np,
                               !.no_stables = ns, !.utility_pairs = up]
    /\ mode' = "pools"
    /\ pc' = IF args'.all_pages THEN "page_request" ELSE "single_request"
    /\ page' = 1
    /\ all_results' = <<>>
    /\ UNCHANGED <<rateVars, reqVars, histVars, pools_data, barVars, result,
                   combined, frames>>

\* lines 59-64: one request of the page loop
PageRequest ==
    /\ pc = "page_request"
    /\ \E o \in PoolOutcomes : make_request(o)
    /\ sent' = Append(sent, page)
    /\ received' = Append(received, response'.data)
    /\ IF PageLoopBreaks(response')
       THEN /\ pools_data' = all_results
            /\ pc' = "parse"
            /\ UNCHANGED all_results
       ELSE /\ all_results' = all_results \o response'.data
            /\ pc' = "page_sleep"
            /\ UNCHANGED pools_data
    /\ UNCHANGED <<mode, args, page, barVars, result, combined, frames>>

\* line 65, and the step of the for loop of line 59
PageSleep ==
    /\ pc = "page_sleep"
    /\ now' = now + PAGE_DELAY
    /\ IF page + 1 <= max_pages
       THEN /\ page' = page + 1
            /\ pc' = "page_request"
            /\ UNCHANGED pools_data
       ELSE /\ pools_data' = all_results
            /\ pc' = "parse"
            /\ UNCHANGED page
    /\ UNCHANGED <<calls, issued, check, reqVars, mode, args, histVars,
                   all_results, barVars, result, combined, frames>>

\* lines 99-101: the single request made when all_pages is off
SingleRequest ==
    /\ pc = "single_request"
    /\ \E o \in PoolOutcomes : make_request(o)
    /\ sent' = Append(sent, 1)
    /\ received' = Append(received, response'.data)
    /\ pools_data' = IF "data" \in response'.keys THEN response'.data ELSE <<>>
    /\ pc' = "parse"
    /\ UNCHANGED <<mode, args, page, all_results, barVars, result,
                   combined, frames>>

\* lines 103-156: the pairs are built and returned
FetchPoolsReturn ==
    /\ pc = "parse"
    /\ result' = ListResult(Pairs(pools_data, args))
    /\ pc' = "done"
    /\ UNCHANGED <<rateVars, reqVars, mode, args, histVars, poolVars, barVars,
                   combined, frames>>

(***************************************************************************)
(* get_price_bars.  A row of the OHLCV list is modelled by its timestamp   *)
(* (seconds); the five value columns travel with it unchanged.             *)
(* pd.to_datetime(.., unit="s") embeds the integer seconds in datetimes    *)
(* order-preservingly and int(..timestamp()) maps them back, so rows are   *)
(* compared by their seconds.                                              *)
(***************************************************************************)
\* the timestamps of the bars an upstream may hold
Timestamps == 0..MaxTs

\* the values of the limit argument the model explores
Limits == {1, 2}

\* the values of start_timestamp and end_timestamp the model explores
Boundaries == {None} \cup {Some(t) : t \in Timestamps}

\* all lists of 1..n rows
RowLists(n) == UNION {[1..k -> Timestamps] : k \in 1..n}

\* newest first, without repetition
NewestFirst(l) == \A i \in 1..Len(l) - 1 : l[i] > l[i + 1]

\* the pages an upstream may answer with: any list of one or two rows; an
\* upstream that honours the request answers newest first with at most limit
\* rows, none newer than the before_timestamp it was given
OhlcvPages(a, before) ==
    IF a.honest
    THEN {l \in RowLists(a.limit) :
            /\ NewestFirst(l)
            /\ before # None => \A i \in 1..Len(l) : l[i] <= before[1]}
    ELSE RowLists(2)

OhlcvOutcomes(a, before) ==
    {Outcome(TRUE, 200, OhlcvDict(l)) : l \in OhlcvPages(a, before)}
        \cup {Outcome(TRUE, 200, OhlcvDict(<<>>)),
              Outcome(TRUE, 200, NoAttributesDict),
              Outcome(TRUE, 200, EmptyDict),
              Outcome(FALSE, 200, EmptyDict), Outcome(TRUE, 401, EmptyDict),
              Outcome(TRUE, 500, EmptyDict)}

\* line 198: the response carries no OHLCV envelope
NoEnvelope(r) == ~Truthy(r) \/ "data" \notin r.keys \/ ~r.attributes

\* a loop condition that goes on when the oldest row is at the start boundary
FetchMore_AtStartGoesOn(l, a) ==
    /\ Len(l) = a.limit
    /\ (a.start_timestamp = None \/ l[Len(l)] >= a.start_timestamp[1])

\* a loop that gives up after its second request
FetchMore_Capped(l, a) ==
    /\ Len(sent) < 1
    /\ Len(l) = a.limit
    /\ (a.start_timestamp = None \/ l[Len(l)] > a.start_timestamp[1])
    /\ ~(TruthyInt(a.start_timestamp) /\ l[Len(l)] <= a.start_timestamp[1])

\* lines 211-215: another page is to be fetched after the page l
FetchMore(l, a) ==
    /\ Len(l) = a.limit
    /\ (a.start_timestamp = None \/ l[Len(l)] > a.start_timestamp[1])
    /\ ~(TruthyInt(a.start_timestamp) /\ l[Len(l)] <= a.start_timestamp[1])

\* a cursor left on the oldest row of the page
NextBefore_OnOldest(l) == Some(l[Len(l)])

\* a cursor one second before the first row of the page
NextBefore_BeforeFirstRow(l) == Some(l[1] - 1)

\* lines 213-217: the cursor of the next request, one second before the
\* oldest row of the page
NextBefore(l) == Some(l[Len(l)] - 1)

\* sorted insertion of a row, after the rows equal to it
Insert(t, l) ==
    LET k == Cardinality({i \in 1..Len(l) : l[i] <= t})
    IN  SubSeq(l, 1, k) \o <<t>> \o SubSeq(l, k + 1, Len(l))

\* rows left in the order they were received
SortValues_AsReceived(l) == l

\* line 230: df.sort_values("timestamp")
RECURSIVE SortValues(_)
SortValues(l) ==
    IF l = <<>> THEN <<>>
    ELSE Insert(l[Len(l)], SortValues(SubSeq(l, 1, Len(l) - 1)))

\* lines 233-235: the rows inside the date range
DateFilter(df, start, end) ==
    IF TruthyInt(start) \/ TruthyInt(end)
    THEN SelectSeq(df, LAMBDA t :
            /\ (IF TruthyInt(start) THEN t >= start[1] ELSE TRUE)
            /\ (IF TruthyInt(end) THEN t <= end[1] ELSE TRUE))
    ELSE df

\* the call of get_price_bars (lines 182-194), against an upstream that
\* honours before_timestamp (h) or an arbitrary one
GetPriceBarsCallOn(h) ==
    /\ mode = "idle"
    /\ \E l \in Limits, start \in Boundaries, end \in Boundaries :
        /\ args' = [NoArgs EXCEPT !.limit = l, !.start_timestamp = start,
                                  !.end_timestamp = end, !.honest = h]
        /\ before_timestamp' = end
    /\ mode' = "bars"
    /\ pc' = "bars_request"
    /\ all_ohlcv_list' = <<>>
    /\ UNCHANGED <<rateVars, reqVars, histVars, poolVars, result,
                   combined, frames>>

GetPriceBarsCall == \E h \in BOOLEAN : GetPriceBarsCallOn(h)

\* lines 197-222: one request of the backward pagination
BarsRequest ==
    /\ pc = "bars_request"
    /\ Len(sent) < (IF args.honest THEN MaxTs + 2 ELSE MaxRequests)
    /\ \E o \in OhlcvOutcomes(args, before_timestamp) : make_request(o)
    /\ sent' = Append(sent, before_timestamp)
    /\ IF NoEnvelope(response') \/ response'.ohlcv_list = <<>>
       THEN /\ received' = Append(received, <<>>)
            /\ pc' = "bars_exit"
            /\ UNCHANGED barVars
       ELSE LET ohlcv_list == response'.ohlcv_list
            IN  /\ received' = Append(received, ohlcv_list)
                /\ all_ohlcv_list' = all_ohlcv_list \o ohlcv_list
                /\ IF FetchMore(ohlcv_list, args)
                   THEN /\ before_timestamp' = NextBefore(ohlcv_list)
                        /\ pc' = "bars_sleep"
                   ELSE /\ pc' = "bars_exit"
                        /\ UNCHANGED before_timestamp
    /\ UNCHANGED <<mode, args, poolVars, result, combined, frames>>

\* line 220
BarsSleep ==
    /\ pc = "bars_sleep"
    /\ now' = now + BARS_DELAY
    /\ pc' = "bars_request"
    /\ UNCHANGED <<calls, issued, check, reqVars, mode, args, histVars,
                   poolVars, barVars, result, combined, frames>>

\* lines 237-239: the symbols read from the 'meta' of the last response, with
\* their defaults; the answers of the model that carry 'meta' name WIF and SOL
meta_symbols(r) ==
    IF "meta" \in r.keys THEN [base |-> "WIF", quote |-> "SOL"]
    ELSE [base |-> "BASE", quote |-> "QUOTE"]

\* lines 241-246: the PriceBar around the frame df, named after the response r
NamedPriceBar(df, r) ==
    [kind |-> "PriceBar", value |-> df, base_token |-> meta_symbols(r).base,
     token_symbol |-> meta_symbols(r).quote]

\* a return that gives None when the last response carried no envelope
price_bars_result_NoneAfterFailure(rows, r, a) ==
    IF rows = <<>> \/ NoEnvelope(r) THEN NoneResult
    ELSE NamedPriceBar(DateFilter(SortValues(rows), a.start_timestamp,
                                  a.end_timestamp), r)

\* lines 224-246: what get_price_bars returns for the rows accumulated, the
\* last response being r
price_bars_result(rows, r, a) ==
    IF rows = <<>> THEN NoneResult
    ELSE NamedPriceBar(DateFilter(SortValues(rows), a.start_timestamp,
                                  a.end_timestamp), r)

\* a return without the check of lines 224-225: an empty frame is wrapped too
GetPriceBarsReturn_EmptySeries ==
    /\ pc = "bars_exit"
    /\ result' = NamedPriceBar(DateFilter(SortValues(all_ohlcv_list),
                                          args.start_timestamp,
                                          args.end_timestamp), response)
    /\ pc' = "done"
    /\ UNCHANGED <<rateVars, reqVars, mode, args, histVars, poolVars, barVars,
                   combined, frames>>

\* lines 224-246: the rows are normalised and returned.  The result is the
\* PriceBar the call of lines 241-246 names, with the DataFrame df as its data.
\* (models/price_bar.py of this tree declares PriceBar without the
\* token_symbol every fetcher passes, as constants.py lacks the PIVOT_TOKENS
\* the client imports; the model follows the client's own code.)
GetPriceBarsReturn ==
    /\ pc = "bars_exit"
    /\ result' = price_bars_result(all_ohlcv_list, response, args)
    /\ pc' = "done"
    /\ UNCHANGED <<rateVars, reqVars, mode, args, histVars, poolVars, barVars,
                   combined, frames>>

(***************************************************************************)
(* BaseDEXClient.filter_pairs (clients/base_client.py).                    *)
(***************************************************************************)
\* lines 12-13: the symbol sets of the base client
self_stablecoins == {"USDC", "USDT", "DAI"}
self_pivots == {"SOL", "RAY", "JLP", "JUP"}

\* models/pair.py: the fields of a LiquidityPair the filter reads
LiquidityPair(address, token0_symbol, token1_symbol, tvl, volume) ==
    [address |-> address, token0_symbol |-> token0_symbol,
     token1_symbol |-> token1_symbol, tvl |-> tvl, volume |-> volume]

\* lines 26-55: the four branches of filter_pairs
filter_pairs(ps, min_tvl, min_volume, no_stables, no_pivots) ==
    IF no_stables /\ no_pivots
    THEN SelectSeq(ps, LAMBDA pair :
            /\ pair.token0_symbol \notin self_stablecoins
            /\ pair.token1_symbol \notin self_stablecoins
            /\ pair.token0_symbol \notin self_pivots
            /\ pair.token1_symbol \notin self_pivots
            /\ pair.tvl >= min_tvl /\ pair.volume >= min_volume)
    ELSE IF no_stables /\ ~no_pivots
    THEN SelectSeq(ps, LAMBDA pair :
            /\ pair.token0_symbol \notin self_stablecoins
            /\ pair.token1_symbol \notin self_stablecoins
            /\ pair.tvl >= min_tvl /\ pair.volume >= min_volume)
    ELSE IF no_pivots /\ ~no_stables
    THEN SelectSeq(ps, LAMBDA pair :
            /\ pair.token0_symbol \notin self_stablecoins
            /\ pair.token1_symbol \notin self_stablecoins
            /\ pair.tvl >= min_tvl /\ pair.volume >= min_volume)
    ELSE SelectSeq(ps, LAMBDA pair :
            pair.tvl >= min_tvl /\ pair.volume >= min_volume)

\* the pairs the model filters: no special leg, a stablecoin leg, a pivot
\* leg, two pivot legs, a pivot and a stablecoin leg, low tvl, low volume
SamplePairs ==
    { LiquidityPair("a1", "BONK", "WIF", 20000, 8000),
      LiquidityPair("a2", "BONK", "USDC", 20000, 8000),
      LiquidityPair("a3", "SOL", "WIF", 20000, 8000),
      LiquidityPair("a4", "JUP", "RAY", 20000, 8000),
      LiquidityPair("a5", "SOL", "USDT", 20000, 8000),
      LiquidityPair("a6", "BONK", "WIF", 5000, 8000),
      LiquidityPair("a7", "BONK", "WIF", 20000, 100) }

\* the lists of at most MaxPairs pairs
PairLists == UNION {[1..k -> SamplePairs] : k \in 0..MaxPairs}

\* a call of filter_pairs
FilterPairsCall ==
    /\ mode = "idle"
    /\ \E ps \in PairLists, tvl \in {0, 10000}, vol \in {0, 5000},
          ns \in BOOLEAN, np \in BOOLEAN :
        /\ args' = [NoArgs EXCEPT !.pairs = ps, !.min_tvl = tvl,
                                  !.min_volume = vol, !.no_stables = ns,
                                  !.no_pivots = np]
        /\ result' = ListResult(filter_pairs(ps, tvl, vol, ns, np))
    /\ mode' = "filter_pairs"
    /\ pc' = "done"
    /\ UNCHANGED <<rateVars, reqVars, histVars, poolVars, barVars,
                   combined, frames>>


(***************************************************************************)
(* The Moralis and CoinGecko fetchers (utils/moralis_price_fetcher.py,     *)
(* utils/coingecko_price_fetcher.py).  They call requests.get themselves,  *)
(* without the rate limiter.  A run is one step of the model: its input is *)
(* what the upstream does with each request of the run.  A bar is modelled *)
(* by its timestamp, close and volume.                                     *)
(***************************************************************************)
\* an operation that an exception left
RaisedResult(e) == [kind |-> "raised", value |-> <<e>>]

\* the JSON object of a Moralis page: 'result' (when held) and 'cursor'
\* ("" when the page names no next one)
MoralisBody(has_result, rows, cursor) ==
    [has_result |-> has_result, result |-> rows, cursor |-> cursor]

\* the bars a fetcher's upstream may hold
UpstreamBars ==
    {[timestamp |-> t, close |-> 7, volume |-> 5] : t \in 1..MaxUpstreamBars}

\* the non-empty lists of bars a page may carry
BarLists == UNION {[1..k -> UpstreamBars] : k \in 1..2}

\* the pages of bars a Moralis answer may carry, oldest bar first
MoralisPages ==
    {l \in BarLists :
        \A i \in 1..Len(l) - 1 : l[i].timestamp < l[i + 1].timestamp}

\* a page that names a next one (under either of two cursors, or with an
\* empty 'result'), and the answers a run ends at: a last page, an empty
\* 'result', no 'result', a failed transport, an error status
MoralisMore ==
    {Outcome(TRUE, 200, MoralisBody(TRUE, l, c)) :
        l \in MoralisPages, c \in {"c1", "c2"}}
        \cup {Outcome(TRUE, 200, MoralisBody(TRUE, <<>>, "c1"))}
MoralisLast ==
    {Outcome(TRUE, 200, MoralisBody(TRUE, l, "")) : l \in MoralisPages}
        \cup {Outcome(TRUE, 200, MoralisBody(TRUE, <<>>, "")),
              Outcome(TRUE, 200, MoralisBody(FALSE, <<>>, "")),
              Outcome(FALSE, 200, MoralisBody(FALSE, <<>>, "")),
              Outcome(TRUE, 401, MoralisBody(FALSE, <<>>, "")),
              Outcome(TRUE, 500, MoralisBody(FALSE, <<>>, ""))}

\* what the upstream does with the first, second, ... request of one run, as
\* far as the run makes them: any answers, and at last one a run ends at
MoralisRuns ==
    UNION {{first \o <<last>> :
               first \in [1..k -> MoralisMore \cup MoralisLast],
               last \in MoralisLast} : k \in 0..MaxMorePages}

\* a loop that reads one page only
moralis_pages_OnePage(responses, all_data, cursors) ==
    LET o == Head(responses)
        data == o.body
        Left(exc, rows) == [exc |-> exc, all_data |-> rows, sent |-> cursors]
    IN  IF ~o.transport_ok THEN Left("ConnectionError", all_data)
        ELSE IF o.status >= 400 /\ o.status < 600
        THEN Left("HTTPError", all_data)
        ELSE IF ~data.has_result \/ data.result = <<>>
        THEN Left("", all_data)
        ELSE Left("", all_data \o data.result)

\* lines 39-62: the while loop over the answers, up to its break or to the
\* exception that leaves it; cursors are the cursors of the requests made,
\* the one under way included ("" for a request without cursor)
RECURSIVE moralis_pages(_, _, _)
moralis_pages(responses, all_data, cursors) ==
    LET o == Head(responses)
        data == o.body
        Left(exc, rows) == [exc |-> exc, all_data |-> rows, sent |-> cursors]
    IN  IF ~o.transport_ok THEN Left("ConnectionError", all_data)
        ELSE IF o.status >= 400 /\ o.status < 600
        THEN Left("HTTPError", all_data)
        ELSE IF ~data.has_result \/ data.result = <<>>
        THEN Left("", all_data)
        ELSE IF data.cursor = ""
        THEN Left("", all_data \o data.result)
        ELSE moralis_pages(Tail(responses), all_data \o data.result,
                           Append(cursors, data.cursor))

\* the DataFrame of the except blocks: periods bars of close 100 and volume
\* 0, at timestamps counted in periods from start_time
MockFrame(periods) ==
    [i \in 1..periods |-> [timestamp |-> i - 1, close |-> 100, volume |-> 0]]

\* line 77: the number of mock bars
MoralisPeriods(timeframe) ==
    CASE timeframe = "1h" -> 168
      [] timeframe = "4h" -> 42
      [] timeframe = "1d" -> 7
      [] OTHER -> 168

\* the values of from_date: a date, UNIX seconds, none
FromDates == {"2025-03-01", "1740787200", ""}

\* lines 34-88: MoralisPriceFetcher.get_price_bars
moralis_get_price_bars(responses, timeframe, from_date) ==
    LET try == moralis_pages(responses, <<>>, <<"">>)
        exc == IF try.exc # "" THEN try.exc
               ELSE IF try.all_data = <<>> THEN "ValueError" ELSE ""
    IN  IF exc = "" THEN PriceBarResult(try.all_data)
        \* line 78: strptime(from_date, "%Y-%m-%d") raises on UNIX seconds
        ELSE IF from_date = "1740787200" THEN RaisedResult("ValueError")
        ELSE PriceBarResult(MockFrame(MoralisPeriods(timeframe)))

\* the pages the upstream sent for the first n requests
PagesRead(responses, n) ==
    LET Answered_ok(o) ==
            o.transport_ok /\ ~(o.status >= 400 /\ o.status < 600)
        read == SelectSeq(SubSeq(responses, 1, n), Answered_ok)
    IN  [k \in 1..Len(read) |-> read[k].body.result]

\* a call of MoralisPriceFetcher.get_price_bars
MoralisGetPriceBars ==
    /\ mode = "idle"
    /\ \E responses \in MoralisRuns, tf \in {"1h", "4h", "1d", "30s"},
          fd \in FromDates :
        /\ args' = [NoArgs EXCEPT !.timeframe = tf, !.from_date = fd,
                                  !.responses = responses]
        /\ sent' = moralis_pages(responses, <<>>, <<"">>).sent
        /\ outcome' = responses[Len(sent')]
        /\ received' = PagesRead(responses, Len(sent'))
        \* the loop of lines 39-62 holds no sleep: every request of the run
        \* is sent at the time of the call
        /\ issued' = [i \in 1..Len(sent') |-> now]
        /\ result' = moralis_get_price_bars(responses, tf, fd)
    /\ mode' = "moralis"
    /\ pc' = "done"
    /\ UNCHANGED <<now, calls, check, response, raised, poolVars, barVars,
                   combined, frames>>

\* the answers of the CoinGecko /ohlc endpoint: a list of [timestamp, open,
\* high, low, close] rows, a failed transport, an error status
CoinGeckoOutcomes ==
    {Outcome(TRUE, 200, l) : l \in BarLists \cup {<<>>}}
        \cup {Outcome(FALSE, 200, <<>>), Outcome(TRUE, 429, <<>>)}

\* lines 59-97: CoinGeckoPriceFetcher.get_price_bars; the frame of the rows
\* received gets a volume column of zeros (line 80)
coingecko_get_price_bars(known_mint, o) ==
    IF known_mint /\ o.transport_ok /\ ~(o.status >= 400 /\ o.status < 600)
    THEN PriceBarResult([i \in 1..Len(o.body) |->
                            [o.body[i] EXCEPT !.volume = 0]])
    ELSE PriceBarResult(MockFrame(42))

\* a call of CoinGeckoPriceFetcher.get_price_bars; no request is made for a
\* mint without a CoinGecko id
CoinGeckoGetPriceBars ==
    /\ mode = "idle"
    /\ \E known \in BOOLEAN, o \in CoinGeckoOutcomes :
        /\ args' = [NoArgs EXCEPT !.known_mint = known]
        /\ IF known
           THEN /\ outcome' = o
                /\ sent' = <<1>>
                /\ received' = IF o.transport_ok /\ o.status = 200
                               THEN <<o.body>> ELSE <<<<>>>>
           ELSE UNCHANGED <<outcome, sent, received>>
        /\ result' = coingecko_get_price_bars(known, o)
    /\ mode' = "coingecko"
    /\ pc' = "done"
    /\ UNCHANGED <<rateVars, response, raised, poolVars, barVars,
                   combined, frames>>

(***************************************************************************)
(* SolanaMeteoraClient.fetch_liquidity_pools (clients/solana/meteora.py).  *)
(* One request, without the rate limiter; a run is one step of the model.  *)
(***************************************************************************)
\* a record of the /pair/all listing: a JSON object with address, mint_x,
\* mint_y, liquidity and trade_volume_24h ("object"), or JSON null ("null"),
\* or an object without mint_x ("no_mint"), without address ("no_address"),
\* with the liquidity "abc" ("text_liquidity") or null ("null_liquidity")
MeteoraRecord(raw, address, mint_x, mint_y, liquidity, volume) ==
    [raw |-> raw, address |-> address, mint_x |-> mint_x, mint_y |-> mint_y,
     liquidity |-> liquidity, trade_volume_24h |-> volume]

\* lines 59-63: self.token_symbols, here the fallback mapping
token_symbols == [SOLmint |-> "SOL", USDCmint |-> "USDC", JUPmint |-> "JUP"]

\* lines 88-89: the symbol of a mint, its last six characters when the mint
\* is not in the mapping (the other mints of the model have six characters)
SymbolOf(mint) ==
    IF mint \in DOMAIN token_symbols THEN token_symbols[mint] ELSE mint

\* lines 82-101: the body of the loop for one record: it skips the record
\* (continue), raises, or builds the pair
meteora_pair(pair) ==
    LET Left(exc, skip) == [exc |-> exc, skip |-> skip, pair |-> <<>>]
    IN  IF pair.raw = "null" THEN Left("AttributeError", FALSE)
        ELSE IF pair.raw = "no_mint" THEN Left("", TRUE)
        ELSE IF pair.raw = "no_address" THEN Left("KeyError", FALSE)
        ELSE IF pair.raw = "text_liquidity" THEN Left("ValueError", FALSE)
        ELSE IF pair.raw = "null_liquidity" THEN Left("TypeError", FALSE)
        ELSE [exc |-> "", skip |-> FALSE,
              pair |-> LiquidityPair(pair.address, SymbolOf(pair.mint_x),
                                     SymbolOf(pair.mint_y), pair.liquidity,
                                     pair.trade_volume_24h)]

\* lines 80-103: the loop over the records; its except clause catches
\* KeyError and ValueError only
RECURSIVE meteora_pairs(_, _)
meteora_pairs(data, pairs) ==
    IF data = <<>> THEN [exc |-> "", pairs |-> pairs]
    ELSE LET r == meteora_pair(Head(data))
         IN  IF r.skip \/ r.exc \in {"KeyError", "ValueError"}
             THEN meteora_pairs(Tail(data), pairs)
             ELSE IF r.exc # "" THEN [exc |-> r.exc, pairs |-> pairs]
             ELSE meteora_pairs(Tail(data), Append(pairs, r.pair))

\* lines 68-110: a failed request and a body that is no list give the empty
\* list; an exception of the loop that is no RequestException leaves the call
meteora_fetch_liquidity_pools(o) ==
    IF ~o.transport_ok \/ (o.status >= 400 /\ o.status < 600)
    THEN ListResult(<<>>)
    ELSE IF ~o.body.is_list THEN ListResult(<<>>)
    ELSE LET loop == meteora_pairs(o.body.data, <<>>)
         IN  IF loop.exc # "" THEN RaisedResult(loop.exc)
             ELSE ListResult(loop.pairs)

\* the records the Meteora upstream may list
MeteoraRecords ==
    { MeteoraRecord("object", "m1", "SOLmint", "USDCmint", 20000, 8000),
      MeteoraRecord("object", "m2", "BONKmt", "SOLmint", 5000, 100) }
        \cup {MeteoraRecord(raw, "m3", "WIFmnt", "SOLmint", 0, 0) :
                 raw \in {"null", "no_mint", "no_address", "text_liquidity",
                          "null_liquidity"}}

\* the answers of /pair/all: a list of records, an object, a failure
MeteoraOutcomes ==
    {Outcome(TRUE, 200, [is_list |-> TRUE, data |-> l]) :
        l \in UNION {[1..k -> MeteoraRecords] : k \in 0..MaxRecords}}
      \cup {Outcome(TRUE, 200, [is_list |-> FALSE, data |-> <<>>]),
            Outcome(FALSE, 200, [is_list |-> FALSE, data |-> <<>>]),
            Outcome(TRUE, 500, [is_list |-> FALSE, data |-> <<>>])}

\* a call of SolanaMeteoraClient.fetch_liquidity_pools
MeteoraFetchLiquidityPools ==
    /\ mode = "idle"
    /\ \E o \in MeteoraOutcomes :
        /\ outcome' = o
        /\ received' = <<o.body.data>>
        /\ result' = meteora_fetch_liquidity_pools(o)
    /\ sent' = <<1>>
    /\ mode' = "meteora"
    /\ pc' = "done"
    /\ UNCHANGED <<rateVars, response, raised, args, poolVars, barVars,
                   combined, frames>>

\* fetch_liquidity_pools is called and runs
PoolsNext ==
    \/ FetchPoolsCall
    \/ PageRequest
    \/ PageSleep
    \/ SingleRequest
    \/ FetchPoolsReturn

\* get_price_bars is called and runs
BarsNext ==
    \/ GetPriceBarsCall
    \/ BarsRequest
    \/ BarsSleep
    \/ GetPriceBarsReturn

\* get_price_bars is called against an upstream that honours before_timestamp
HonouredBarsNext ==
    \/ GetPriceBarsCallOn(TRUE)
    \/ BarsRequest
    \/ BarsSleep
    \/ GetPriceBarsReturn

Next ==
    \/ Elapse
    \/ DirectRequest
    \/ PoolsNext
    \/ BarsNext
    \/ MeteoraFetchLiquidityPools

Spec == Init /\ [][Next]_vars

(***************************************************************************)
(* Numbers of the analytics (utils.py).  A float is NaN or a fraction n/d  *)
(* in lowest terms with d > 0; the arithmetic is exact, NaN propagates.    *)
(***************************************************************************)
Abs(x) == IF x < 0 THEN -x ELSE x
Sgn(x) == IF x < 0 THEN -1 ELSE IF x > 0 THEN 1 ELSE 0

RECURSIVE GCD(_, _)
GCD(a, b) == IF b = 0 THEN a ELSE GCD(b, a % b)

NaN == [nan |-> TRUE, n |-> 0, d |-> 1]

\* the float n/d, d # 0
Rat(n, d) ==
    LET g == GCD(Abs(n), Abs(d))
    IN  [nan |-> FALSE, n |-> Sgn(d) * (n \div g), d |-> Abs(d) \div g]

Float(i) == Rat(i, 1)

Plus(x, y) ==
    IF x.nan \/ y.nan THEN NaN
    ELSE LET l == (x.d \div GCD(x.d, y.d)) * y.d
         IN  Rat(x.n * (l \div x.d) + y.n * (l \div y.d), l)

Times(x, y) ==
    IF x.nan \/ y.nan THEN NaN
    ELSE LET a == Rat(x.n, y.d)
             b == Rat(y.n, x.d)
         IN  Rat(a.n * b.n, a.d * b.d)

Minus(x, y) == Plus(x, Times(Float(-1), y))

\* x / y for y # 0
Over(x, y) ==
    IF x.nan \/ y.nan THEN NaN ELSE Times(x, Rat(y.d, y.n))

\* the sum of a list of floats
RECURSIVE Sum(_)
Sum(xs) == IF xs = <<>> THEN Float(0) ELSE Plus(xs[1], Sum(Tail(xs)))

\* Series.mean()
Mean(xs) == Over(Sum(xs), Float(Len(xs)))

\* Series.cov(other): the sample covariance, NaN for fewer than 2 rows
Cov(xs, ys) ==
    IF Len(xs) < 2 THEN NaN
    ELSE Over(Sum([i \in 1..Len(xs) |->
                     Times(Minus(xs[i], Mean(xs)), Minus(ys[i], Mean(ys)))]),
              Float(Len(xs) - 1))

\* Series.var(): the sample variance (ddof = 1), NaN for fewer than 2 rows
Var(xs) == Cov(xs, xs)

(***************************************************************************)
(* The alignment and the correlation matrix (utils.py, utils/analyzer.py:  *)
(* the two copies are the same code).  A series is a frame of (timestamp,  *)
(* close) rows; the frames handed to pd.concat hold each timestamp once.   *)
(***************************************************************************)
Row(timestamp, close) == [timestamp |-> timestamp, close |-> close]

TimestampsOf(df) == {df[i].timestamp : i \in 1..Len(df)}

\* df.set_index("timestamp")["close"] at the label t
CloseAt(df, t) ==
    LET i == CHOOSE i \in 1..Len(df) : df[i].timestamp = t IN df[i].close

\* a join that keeps every timestamp of the first series (a left join; 0
\* stands for the hole)
concat_inner_Left(series) ==
    LET index == [i \in 1..Len(series[1].df) |-> series[1].df[i].timestamp]
    IN  Table([j \in 1..Len(series) |-> series[j].name], index,
              [i \in 1..Len(index) |->
                 [j \in 1..Len(series) |->
                    IF index[i] \in TimestampsOf(series[j].df)
                    THEN CloseAt(series[j].df, index[i]) ELSE 0]])

\* pd.concat([...], axis=1, join="inner") of named close series: the labels
\* of the first index that every other index holds too, one column a series
concat_inner(series) ==
    LET first == [i \in 1..Len(series[1].df) |-> series[1].df[i].timestamp]
        index == SelectSeq(first, LAMBDA t :
                    \A j \in 1..Len(series) : t \in TimestampsOf(series[j].df))
    IN  Table([j \in 1..Len(series) |-> series[j].name], index,
              [i \in 1..Len(index) |->
                 [j \in 1..Len(series) |-> CloseAt(series[j].df, index[i])]])

\* the column j of a table
Column(t, j) == [i \in 1..Len(t.index) |-> t.values[i][j]]

\* an entry of DataFrame.corr(): NaN, or the Pearson coefficient r kept as
\* its sign and its square (r = cov / sqrt(var_x * var_y))
NaNCorr == [nan |-> TRUE, sign |-> 0, square |-> NaN]
Pearson(xs, ys) ==
    LET n == Len(xs)
        sx == Sum([i \in 1..n |-> Float(xs[i])]).n
        sy == Sum([i \in 1..n |-> Float(ys[i])]).n
        sxy == Sum([i \in 1..n |-> Float(xs[i] * ys[i])]).n
        sxx == Sum([i \in 1..n |-> Float(xs[i] * xs[i])]).n
        syy == Sum([i \in 1..n |-> Float(ys[i] * ys[i])]).n
        nxy == n * sxy - sx * sy
        nxx == n * sxx - sx * sx
        nyy == n * syy - sy * sy
    IN  IF nxx = 0 \/ nyy = 0 THEN NaNCorr
        ELSE [nan |-> FALSE, sign |-> Sgn(nxy),
              square |-> Times(Rat(nxy, nxx), Rat(nxy, nyy))]

\* a square matrix under the labels, row and column alike
Matrix(labels, entries) == [labels |-> labels, entries |-> entries]
DataFrameResult(m) == [kind |-> "DataFrame", value |-> m]

\* an insufficient-overlap matrix filled with zeros
insufficient_matrix_Zeros(t) ==
    Matrix(t.columns,
           [i \in 1..Len(t.columns) |->
              [j \in 1..Len(t.columns) |->
                 [nan |-> FALSE, sign |-> 0, square |-> Float(0)]]])

\* utils.py line 276: pd.DataFrame(np.nan, index=combined.columns,
\* columns=combined.columns)
insufficient_matrix(t) ==
    Matrix(t.columns,
           [i \in 1..Len(t.columns) |-> [j \in 1..Len(t.columns) |-> NaNCorr]])

\* utils.py lines 274-279: the matrix of an aligned table
correlation_of(t) ==
    IF Len(t.index) < 2
    THEN insufficient_matrix(t)
    ELSE Matrix(t.columns,
                [i \in 1..Len(t.columns) |->
                   [j \in 1..Len(t.columns) |->
                      Pearson(Column(t, i), Column(t, j))]])

\* the timestamps a series may hold
SeriesTimes == 1..MaxT

\* the price paths of the model: A rises by one a step, B rises ever faster,
\* C is constant, D is three times A, G doubles a step
Close(path, t) ==
    CASE path = "A" -> t
      [] path = "B" -> 2 * t * t - 3 * t + 2
      [] path = "C" -> 2
      [] path = "D" -> 3 * t
      [] path = "G" -> 2 ^ t
      [] OTHER -> 1

\* the dtypes of the 'timestamp' column of a frame handed to an analysis:
\* ISO formatted strings as read from a CSV file, or datetimes
Dtypes == {"object", "datetime64"}

\* a DataFrame of the caller: its rows (an unparseable or missing cell is
\* None) and the dtype of its 'timestamp' column
CallerFrame(rows, dtype) == [rows |-> rows, timestamp_dtype |-> dtype]

\* utils.py lines 322-323, 121 and 202: df["timestamp"] =
\* pd.to_datetime(df["timestamp"], errors="coerce"), an assignment to the
\* column of the frame the name is bound to
to_datetime_assigned(frame) == [frame EXCEPT !.timestamp_dtype = "datetime64"]

\* utils.py lines 188-202: the frame of the caller after the volatility ran:
\* the early returns leave it alone, and rename() binds cross_df to a copy
volatility_frame_after(frame, columns) ==
    IF "timestamp" \notin columns THEN frame
    ELSE IF "close" \notin columns THEN frame
    ELSE to_datetime_assigned(frame)

\* the frame of a path at the timestamps ts, ascending
RECURSIVE FrameOf(_, _)
FrameOf(path, ts) ==
    IF ts = {} THEN <<>>
    ELSE LET t == CHOOSE t \in ts : \A u \in ts : t >= u
         IN  Append(FrameOf(path, ts \ {t}), Row(t, Close(path, t)))

\* the (token_symbol, DataFrame) tuples of a data_list
Named(name, df) == [name |-> name, df |-> df]
SeriesOf(name) == {Named(name, FrameOf(name, ts)) : ts \in SUBSET SeriesTimes}

\* the lists the model hands to the correlation: one series, two series
\* (the same symbol twice too), three series
DataLists ==
    {<<>>}
      \cup {<<a>> : a \in SeriesOf("A") \cup SeriesOf("B") \cup SeriesOf("C")}
      \cup {<<a, b>> : a \in SeriesOf("A") \cup SeriesOf("C"),
                       b \in SeriesOf("A") \cup SeriesOf("B")}
      \cup {<<a, b, c>> : a \in SeriesOf("A"), b \in SeriesOf("B"),
                          c \in SeriesOf("C")}

\* utils.py lines 261-279: compute_correlation_matrix_from_dataframes
ComputeCorrelationMatrix ==
    /\ mode = "idle"
    /\ \E data_list \in DataLists, dtype \in Dtypes :
        /\ args' = [NoArgs EXCEPT !.data_list = data_list,
                                  !.timestamp_dtype = dtype]
        /\ frames' = [j \in 1..Len(data_list) |->
                        CallerFrame(data_list[j].df, dtype)]
        /\ IF data_list = <<>>
           THEN /\ combined' = NoTable
                /\ result' = DataFrameResult(Matrix(<<>>, <<>>))
           ELSE /\ combined' = concat_inner(data_list)
                /\ result' = DataFrameResult(correlation_of(combined'))
    /\ mode' = "correlation"
    /\ pc' = "done"
    /\ UNCHANGED <<rateVars, reqVars, histVars, poolVars, barVars>>

(***************************************************************************)
(* compute_beta_from_dataframes (utils.py lines 317-347; utils/analyzer.py *)
(* lines 74-104 is the same code).  The frames it is handed may hold rows  *)
(* without a timestamp or a close: a field is None or Some(value).         *)
(***************************************************************************)
\* df.dropna(subset=[...])
dropna(df, subset) ==
    SelectSeq(df, LAMBDA r : \A f \in subset : r[f] # None)

\* sorted insertion of a row, after the rows of the same timestamp
InsertRow(r, df) ==
    LET k == Cardinality({i \in 1..Len(df) :
                            df[i].timestamp[1] <= r.timestamp[1]})
    IN  SubSeq(df, 1, k) \o <<r>> \o SubSeq(df, k + 1, Len(df))

\* df.sort_values("timestamp") of a frame whose rows all have a timestamp
RECURSIVE sort_values(_)
sort_values(df) ==
    IF df = <<>> THEN <<>>
    ELSE InsertRow(df[Len(df)], sort_values(SubSeq(df, 1, Len(df) - 1)))

\* df.set_index("timestamp")["close"] of a frame without holes
close_series(df) ==
    [i \in 1..Len(df) |-> Row(df[i].timestamp[1], df[i].close[1])]

\* line 343: combined.pct_change().dropna(), the column j of it
pct_change(t, j) ==
    [i \in 1..Len(t.index) - 1 |->
        Rat(t.values[i + 1][j] - t.values[i][j], t.values[i][j])]

\* lines 331-336: the aligned table of the two cleaned frames
beta_combined(token_df, sol_df) ==
    concat_inner(<<Named("token", close_series(sort_values(
                      dropna(token_df, {"timestamp", "close"})))),
                   Named("sol", close_series(sort_values(
                      dropna(sol_df, {"timestamp", "close"}))))>>)

\* a beta that is 0 where the benchmark does not move
beta_of_ZeroWhenFlat(t) ==
    IF Len(t.index) < 2 THEN NaN
    ELSE LET covariance == Cov(pct_change(t, 1), pct_change(t, 2))
             variance == Var(pct_change(t, 2))
         IN  IF variance # Float(0) THEN Over(covariance, variance)
             ELSE Float(0)

\* lines 338-347: the beta of an aligned table
beta_of(t) ==
    IF Len(t.index) < 2 THEN NaN
    ELSE LET covariance == Cov(pct_change(t, 1), pct_change(t, 2))
             variance == Var(pct_change(t, 2))
         IN  IF variance # Float(0) THEN Over(covariance, variance) ELSE NaN

FloatResult(x) == [kind |-> "float", value |-> x]

\* a frame as it is handed over: ascending or not, and with or without a
\* further row that lacks its close
RawFrame(path, ts, ascending, hole) ==
    LET df == FrameOf(path, ts)
        raw == [i \in 1..Len(df) |->
                  Row(Some(df[i].timestamp), Some(df[i].close))]
        ordered == IF ascending THEN raw
                   ELSE [i \in 1..Len(raw) |-> raw[Len(raw) + 1 - i]]
    IN  IF hole THEN <<Row(Some(1), None)>> \o ordered ELSE ordered

\* a call of compute_beta_from_dataframes
ComputeBeta ==
    /\ mode = "idle"
    /\ \E tp \in {"A", "B", "D"}, tts \in SUBSET SeriesTimes,
          ascending \in BOOLEAN, hole \in BOOLEAN,
          sp \in {"A", "C", "G"}, sts \in SUBSET SeriesTimes,
          dtype \in Dtypes :
        /\ args' = [NoArgs EXCEPT
                      !.token_df = RawFrame(tp, tts, ascending, hole),
                      !.sol_df = RawFrame(sp, sts, TRUE, FALSE),
                      !.timestamp_dtype = dtype]
        /\ frames' = <<to_datetime_assigned(CallerFrame(args'.token_df, dtype)),
                       to_datetime_assigned(CallerFrame(args'.sol_df, dtype))>>
        /\ combined' = beta_combined(args'.token_df, args'.sol_df)
        /\ result' = FloatResult(beta_of(combined'))
    /\ mode' = "beta"
    /\ pc' = "done"
    /\ UNCHANGED <<rateVars, reqVars, histVars, poolVars, barVars>>

(***************************************************************************)
(* calculate_volume_and_fees_from_two (utils.py lines 91-169).  Timestamps *)
(* are counted in hours, a window of W days is 24 * W of them.             *)
(***************************************************************************)
\* a row of the base frame: its timestamp and its volume, each None when the
\* value is missing or unparseable (the NaT / NaN of errors="coerce")
VolumeRow(timestamp, volume) == [timestamp |-> timestamp, volume |-> volume]

\* the windows, in days
Periods == {3, 7, 14}

\* df["timestamp"].max() of a frame without holes, NaT (None) when empty
max_time(df) ==
    IF df = <<>> THEN None
    ELSE Some(CHOOSE t \in {df[i].timestamp[1] : i \in 1..Len(df)} :
                 \A i \in 1..Len(df) : t >= df[i].timestamp[1])

\* a window that leaves out the row at its start
interval_rows_Strict(df, latest, days_interval) ==
    SelectSeq(df, LAMBDA r : r.timestamp[1] > latest - 24 * days_interval)

\* lines 143-145 (and 217-218): the rows of the last days_interval days
interval_rows(df, latest, days_interval) ==
    SelectSeq(df, LAMBDA r : r.timestamp[1] >= latest - 24 * days_interval)

\* the four metrics of a window
VolumeMetrics(volume, fees, fee_to_tvl, volume_to_tvl) ==
    [avg_daily_volume |-> volume, avg_daily_fees |-> fees,
     avg_daily_fee_to_tvl_ratio |-> fee_to_tvl,
     avg_daily_volume_to_tvl_ratio |-> volume_to_tvl]

\* lines 116-169
calculate_volume_and_fees_from_two(base_df, tvl, fee_rate) ==
    LET df == sort_values(dropna(base_df, {"timestamp", "volume"}))
        latest == max_time(df)
    IN  [days_interval \in Periods |->
           IF latest = None
           THEN VolumeMetrics(Float(0), Float(0), None, None)
           ELSE LET interval_df == interval_rows(df, latest[1], days_interval)
                    total_volume ==
                        Sum([i \in 1..Len(interval_df) |->
                               Float(interval_df[i].volume[1])])
                    avg_daily_volume == Over(total_volume, Float(days_interval))
                    avg_daily_fees == Times(avg_daily_volume, fee_rate)
                IN  VolumeMetrics(
                       avg_daily_volume, avg_daily_fees,
                       IF tvl > 0 THEN Some(Over(avg_daily_fees, Float(tvl)))
                       ELSE None,
                       IF tvl > 0 THEN Some(Over(avg_daily_volume, Float(tvl)))
                       ELSE None)]

DictResult(d) == [kind |-> "dict", value |-> d]

\* the rows of the base frames of the model: the last row of a series that
\* spans 14 days, the rows 3 and 14 days before it, rows with a hole
VolumeRows ==
    {VolumeRow(Some(t), Some(v)) : t \in {0, 264, 336}, v \in {1, 2}}
        \cup {VolumeRow(None, Some(1)), VolumeRow(Some(336), None),
              VolumeRow(Some(264), None)}

VolumeFrames == UNION {[1..k -> VolumeRows] : k \in 0..MaxRows}

\* line 94: the default fee rate, 0.003
DefaultFeeRate == Rat(3, 1000)

\* a call of calculate_volume_and_fees_from_two
CalculateVolumeAndFees ==
    /\ mode = "idle"
    /\ \E base_df \in VolumeFrames, tvl \in {-1, 0, 10000}, dtype \in Dtypes :
        /\ args' = [NoArgs EXCEPT !.df = base_df, !.tvl = tvl,
                                  !.timestamp_dtype = dtype]
        /\ frames' = <<to_datetime_assigned(CallerFrame(base_df, dtype))>>
        /\ result' = DictResult(calculate_volume_and_fees_from_two(
                                   base_df, tvl, DefaultFeeRate))
    /\ mode' = "volume"
    /\ pc' = "done"
    /\ UNCHANGED <<rateVars, reqVars, histVars, poolVars, barVars, combined>>

(***************************************************************************)
(* calculate_cross_price_volatility_from_df (utils.py lines 171-233).  A   *)
(* volatility is kept as NaN or as its sign: std * sqrt(365 * 24) is 0     *)
(* exactly when the standard deviation is, and the standard deviation of   *)
(* the log returns is 0 exactly when the ratios under the logarithm are    *)
(* all the same.  The code computes in doubles: Series.std() subtracts the *)
(* mean (x + ... + x) / n of n equal returns x from each of them, and the  *)
(* mean is x for n = 2 and for x = log(1) = 0, while for n >= 3 it is x    *)
(* for some x (log(1.5)) and next to x for others (log(6)).  mean_exact    *)
(* says which of the two holds for the returns of the call.               *)
(***************************************************************************)
NaNVolatility == [nan |-> TRUE, sign |-> 0]
Volatility(sign) == [nan |-> FALSE, sign |-> sign]

\* returns taken as differences of the closes
log_returns_Differences(df) ==
    [i \in 1..Len(df) - 1 |-> Float(df[i + 1].close[1] - df[i].close[1])]

\* line 226: the arguments close / close.shift(1) of the logarithm, without
\* the first row's NaN
log_returns(df) ==
    [i \in 1..Len(df) - 1 |-> Rat(df[i + 1].close[1], df[i].close[1])]

\* line 229: Series.std() of the logarithms (ddof = 1), times sqrt(365 * 24)
annualized_std(xs, mean_exact) ==
    IF Len(xs) < 2 THEN NaNVolatility
    ELSE IF \E i \in 1..Len(xs) : xs[i] # xs[1] THEN Volatility(1)
    ELSE IF Len(xs) = 2 \/ xs[1] = Float(1) \/ mean_exact THEN Volatility(0)
    ELSE Volatility(1)

\* a window that reports 0 when it holds too few rows
window_volatility_ZeroWhenShort(filtered_df, mean_exact) ==
    IF Len(filtered_df) < 2 THEN Volatility(0)
    ELSE annualized_std(log_returns(filtered_df), mean_exact)

\* lines 220-231: the volatility of the rows of a window
window_volatility(filtered_df, mean_exact) ==
    IF Len(filtered_df) < 2 THEN NaNVolatility
    ELSE annualized_std(log_returns(filtered_df), mean_exact)

\* lines 188-233; columns are the names of the columns of cross_df, and a
\* 'price' column is read as 'close' when there is no 'close' (line 195)
calculate_cross_price_volatility_from_df(cross_df, columns, mean_exact) ==
    IF "timestamp" \notin columns THEN <<>>
    ELSE IF "close" \notin columns /\ "price" \notin columns THEN <<>>
    ELSE LET df == sort_values(dropna(cross_df, {"timestamp", "close"}))
             latest == max_time(df)
         IN  [days_interval \in Periods |->
                IF latest = None THEN NaNVolatility
                ELSE window_volatility(
                        interval_rows(df, latest[1], days_interval),
                        mean_exact)]

\* the rows of the cross frames of the model: three consecutive hourly bars
\* and one 14 days after the last of them, rows with a hole
CrossRows ==
    {Row(Some(t), Some(c)) : t \in {0, 1, 2, 338}, c \in {100, 110, 121}}
        \cup {Row(None, Some(100)), Row(Some(2), None)}

\* the first hourly bars of a series whose close grows sixfold every hour
HourlyFrames ==
    {[i \in 1..k |-> Row(Some(i - 1), Some(6 ^ (i - 1)))] : k \in 0..MaxHours}

CrossFrames == UNION {[1..k -> CrossRows] : k \in 0..MaxRows} \cup HourlyFrames

\* the frames handed over: with 'timestamp' and 'close', and the short ones
\* also with 'price' for 'close' or without a column
CrossInputs ==
    {[df |-> df, columns |-> {"timestamp", "close"}] : df \in CrossFrames}
        \cup {[df |-> df, columns |-> cs] :
                 df \in {f \in CrossFrames : Len(f) <= 1},
                 cs \in {{"timestamp", "price"}, {"timestamp"}, {"close"}, {}}}

\* a call of calculate_cross_price_volatility_from_df
CalculateVolatility ==
    /\ mode = "idle"
    /\ \E in \in CrossInputs, mean_exact \in BOOLEAN, dtype \in Dtypes :
        /\ args' = [NoArgs EXCEPT !.df = in.df, !.columns = in.columns,
                                  !.mean_exact = mean_exact,
                                  !.timestamp_dtype = dtype]
        /\ frames' = <<volatility_frame_after(CallerFrame(in.df, dtype),
                                              in.columns)>>
        /\ result' = DictResult(calculate_cross_price_volatility_from_df(
                                   in.df, in.columns, mean_exact))
    /\ mode' = "volatility"
    /\ pc' = "done"
    /\ UNCHANGED <<rateVars, reqVars, histVars, poolVars, barVars, combined>>

\* the operations that run in one step of the model
UtilsNext ==
    \/ FilterPairsCall
    \/ MoralisGetPriceBars
    \/ CoinGeckoGetPriceBars
    \/ ComputeCorrelationMatrix
    \/ ComputeBeta
    \/ CalculateVolumeAndFees
    \/ CalculateVolatility

\* the runs of the fetchers, the pool filter and the analytics
UtilsSpec == Init /\ [][UtilsNext]_vars

\* The client is single threaded and every request returns (an answer, or a
\* transport failure), so a running operation eventually takes its next step.
PoolsStep == PageRequest \/ PageSleep \/ SingleRequest \/ FetchPoolsReturn
BarsStep == BarsRequest \/ BarsSleep \/ GetPriceBarsReturn

\* the runs of fetch_liquidity_pools
FairPoolsSpec == Init /\ [][PoolsNext]_vars /\ WF_vars(PoolsStep)

\* the runs of get_price_bars against an upstream that honours before_timestamp
FairBarsSpec == Init /\ [][HonouredBarsNext]_vars /\ WF_vars(BarsStep)

(***************************************************************************)
(* The rate limiter.                                                       *)
(***************************************************************************)
\* C1: no more than rate_limit requests are sent to the upstream within any
\* 60-second sliding window: of any rate_limit + 1 consecutive requests, the
\* last is sent at least 60 s after the first.
C1_WindowHoldsAtMostLimit ==
    Len(issued) = rate_limit + 1 => issued[Len(issued)] - issued[1] >= WINDOW

\* C2: after the purge, a log of at least rate_limit entries makes the call
\* sleep 60 s - (now - oldest entry), so that the request is sent no earlier
\* than 60 s after the oldest logged entry; a shorter log means no sleep.
C2_SleepUntilOldestAgesOut ==
    issued # <<>> =>
        LET kept == check.kept
            issue_time == issued[Len(issued)]
        IN  /\ kept = PurgedCalls(kept, check.current_time)
            /\ \A i \in 1..Len(kept) : kept[1] <= kept[i]
            /\ Len(kept) >= rate_limit =>
                /\ check.slept = WINDOW - (check.current_time - kept[1])
                /\ issue_time = check.current_time + check.slept
                /\ issue_time - kept[1] >= WINDOW
            /\ Len(kept) < rate_limit =>
                /\ check.slept = 0
                /\ issue_time = check.current_time

\* a call that found the log full after the purge and slept
C2_Witness ==
    /\ issued # <<>>
    /\ Len(check.kept) >= rate_limit
    /\ check.slept > 0

(***************************************************************************)
(* The request wrapper.                                                    *)
(***************************************************************************)
Answered(status) == outcome.transport_ok /\ outcome.status = status
Succeeded == outcome.transport_ok /\ outcome.status \in 200..299
Failed ==
    \/ ~outcome.transport_ok
    \/ outcome.status \in 400..599 /\ outcome.status # 401

\* C4 (as stated): _make_request does not raise; a 401 gives the marker, any
\* other transport failure or non-2xx status gives the empty dict, a success
\* gives the payload, and the three values are pairwise distinct.
C4_ThreeDistinctOutcomes ==
    issued # <<>> =>
        /\ raised = ""
        /\ Answered(401) => response = UnauthorizedDict
        /\ (~Succeeded /\ ~Answered(401)) => response = EmptyDict
        /\ Succeeded =>
            /\ response = outcome.body
            /\ response \notin {EmptyDict, UnauthorizedDict}
        /\ UnauthorizedDict # EmptyDict

\* C4 (amended): _make_request does not raise; a 401 gives the marker, a
\* transport failure or another 4xx/5xx status gives the empty dict, and any
\* other answer gives its payload unchanged; the marker and the empty dict
\* differ, and the payload differs from both unless the upstream sent one of
\* them as the payload.
C4_ReturnPerOutcome ==
    issued # <<>> =>
        /\ raised = ""
        /\ Answered(401) => response = UnauthorizedDict
        /\ Failed => response = EmptyDict
        /\ (~Failed /\ ~Answered(401)) => response = outcome.body
        /\ UnauthorizedDict # EmptyDict

\* a 401 answer returned as the marker
C4_Witness ==
    /\ mode = "direct"
    /\ Answered(401)
    /\ response = UnauthorizedDict
    /\ raised = ""

(***************************************************************************)
(* The page loop of the pool listing.                                      *)
(***************************************************************************)
RECURSIVE Flatten(_)
Flatten(ls) == IF ls = <<>> THEN <<>> ELSE ls[1] \o Flatten(Tail(ls))

InPageLoop == mode = "pools" /\ args.all_pages

\* C3: _get_all_pages terminates; it requests pages 1, 2, ... in order, at
\* most max_pages of them; it stops at the first page that is empty, failed
\* or lacks 'data' and returns the records of the pages before it, in page
\* order; when no page is empty it makes exactly max_pages requests and
\* returns the records of all of them.
C3_PagesInOrderUntilEmpty ==
    /\ [](InPageLoop =>
            /\ sent = [i \in 1..Len(sent) |-> i]
            /\ Len(sent) <= max_pages
            /\ \A i \in 1..Len(sent) - 1 : received[i] # <<>>
            /\ all_results =
                 Flatten([i \in 1..Len(sent) |-> received[i]])
            /\ pc \in {"page_request", "page_sleep"} =>
                 \A i \in 1..Len(sent) : received[i] # <<>>
            /\ pc \in {"parse", "done"} =>
                 /\ pools_data = all_results
                 /\ sent # <<>>
                 /\ received[Len(sent)] # <<>> => Len(sent) = max_pages)
    /\ (InPageLoop ~> pc = "done")

\* the loop ran to max_pages against pages that were never empty
C3_Witness ==
    /\ InPageLoop
    /\ pc = "done"
    /\ Len(sent) = max_pages
    /\ \A i \in 1..Len(sent) : received[i] # <<>>

(***************************************************************************)
(* Authorization errors at the public operations.                          *)
(***************************************************************************)
\* what an operation returns when the upstream has nothing
NoDataResult == IF mode = "pools" THEN ListResult(<<>>) ELSE NoneResult

\* C5: when the upstream answers 401, fetch_liquidity_pools and
\* get_price_bars return a value that differs from the one they return on a
\* transport failure or on an upstream with no data.
C5_UnauthorizedSurfaced ==
    (/\ mode \in {"pools", "bars"}
     /\ pc = "done"
     /\ Len(sent) = 1
     /\ Answered(401)) => result # NoDataResult

\* a failed first request, or an upstream without data, gives NoDataResult
FailureGivesNoData ==
    (/\ mode \in {"pools", "bars"}
     /\ pc = "done"
     /\ Len(sent) = 1
     /\ received[1] = <<>>) => result = NoDataResult

(***************************************************************************)
(* The backward pagination of get_price_bars.                              *)
(***************************************************************************)
InBars == mode = "bars"
LastPage == received[Len(received)]
Oldest(l) == l[Len(l)]

\* the page holds exactly limit rows and its oldest row is newer than the
\* start boundary, if there is one
FullAndNewer(l) ==
    /\ Len(l) = args.limit
    /\ (args.start_timestamp = None \/ Oldest(l) > args.start_timestamp[1])

\* C6: after a page, a further request is issued exactly when the page holds
\* exactly limit rows and its oldest row is strictly newer than
\* start_timestamp (or there is none), and that request carries
\* before_timestamp = oldest - 1; otherwise no request follows.
C6_FurtherRequestIffFullAndNewer ==
    (InBars /\ sent # <<>>) =>
        /\ pc \in {"bars_sleep", "bars_request"} <=> FullAndNewer(LastPage)
        /\ pc \in {"bars_sleep", "bars_request"} =>
             before_timestamp = Some(Oldest(LastPage) - 1)
        /\ \A k \in 2..Len(sent) :
             /\ FullAndNewer(received[k - 1])
             /\ sent[k] = Some(Oldest(received[k - 1]) - 1)

\* a second request was issued under a start boundary
C6_Witness ==
    /\ InBars
    /\ Len(sent) = 2
    /\ args.start_timestamp # None
    /\ pc = "done"

\* C7: against an upstream that holds finitely many bars and answers only
\* with bars at or before the before_timestamp it was given, newest first,
\* get_price_bars stops issuing requests and returns.
C7_HonestUpstreamTerminates ==
    /\ []((InBars /\ args.honest) => Len(sent) <= MaxTs + 2)
    /\ []((InBars /\ args.honest /\ pc = "bars_request") =>
            Len(sent) < MaxTs + 2)
    /\ ((InBars /\ args.honest) ~> pc = "done")

\* a run over several pages of an honouring upstream has returned
C7_Witness ==
    /\ InBars
    /\ args.honest
    /\ pc = "done"
    /\ Len(sent) >= 3
    /\ result.kind = "PriceBar"

(***************************************************************************)
(* The normalisation of get_price_bars.                                    *)
(***************************************************************************)
Returned_Series == InBars /\ pc = "done" /\ result.kind = "PriceBar"

\* C8: the rows of the returned series are in ascending timestamp order.
C8_RowsAscending ==
    Returned_Series =>
        \A i \in 1..Len(result.value) - 1 :
            result.value[i] <= result.value[i + 1]

\* rows received out of order were returned
C8_Witness ==
    /\ Returned_Series
    /\ Len(result.value) >= 2
    /\ \E i \in 1..Len(all_ohlcv_list) - 1 :
        all_ohlcv_list[i] > all_ohlcv_list[i + 1]

\* C9: the returned series holds each timestamp at most once, also when
\* successive pages (each of them newest first, without repetition) overlap
\* or the same page is received twice.
C9_TimestampsUnique ==
    (/\ Returned_Series
     /\ \A k \in 1..Len(received) : NewestFirst(received[k])) =>
        \A i, j \in 1..Len(result.value) :
            result.value[i] = result.value[j] => i = j

Count(l, t) == Cardinality({i \in 1..Len(l) : l[i] = t})

InRange(t) ==
    /\ args.start_timestamp # None => t >= args.start_timestamp[1]
    /\ args.end_timestamp # None => t <= args.end_timestamp[1]

\* C10: every row of the returned series lies in [start_timestamp,
\* end_timestamp], each bound applied when it is given, and every accumulated
\* row inside the range is kept.
C10_RowsWithinRange ==
    Returned_Series =>
        /\ \A i \in 1..Len(result.value) : InRange(result.value[i])
        /\ \A t \in Timestamps :
             InRange(t) => Count(result.value, t) = Count(all_ohlcv_list, t)

(***************************************************************************)
(* The failure contract of get_price_bars.                                 *)
(***************************************************************************)
\* the only request made was answered without a single OHLCV row: the
\* transport failed, the status was an error, or the body was empty, lacked
\* the data/attributes envelope or carried an empty ohlcv_list
FirstResponseWithoutRows ==
    /\ Len(sent) = 1
    /\ \/ ~outcome.transport_ok
       \/ outcome.status \in 400..599
       \/ ~Truthy(outcome.body)
       \/ "data" \notin outcome.body.keys
       \/ ~outcome.body.attributes
       \/ outcome.body.ohlcv_list = <<>>

\* C11: get_price_bars returns None when the first response is empty,
\* failed, lacks the data/attributes envelope or carries an empty ohlcv_list,
\* and it returns a PriceBar only when at least one OHLCV row was received.
C11_NoSeriesWithoutRows ==
    (InBars /\ pc = "done") =>
        /\ result.kind \in {"None", "PriceBar"}
        /\ FirstResponseWithoutRows => result = NoneResult
        /\ result.kind = "PriceBar" =>
             \E k \in 1..Len(received) : received[k] # <<>>
        /\ Len(received) = Len(sent)

\* a first response without the attributes envelope ended in None
C11_Witness ==
    /\ InBars
    /\ pc = "done"
    /\ Len(sent) = 1
    /\ outcome = Outcome(TRUE, 200, NoAttributesDict)
    /\ result = NoneResult

(***************************************************************************)
(* The pool filter of the base client.                                     *)
(***************************************************************************)
\* the four predicates of the filter, each flag excluding its own set only
KeptByAllFour(pair) ==
    /\ args.no_stables => /\ pair.token0_symbol \notin self_stablecoins
                          /\ pair.token1_symbol \notin self_stablecoins
    /\ args.no_pivots => /\ pair.token0_symbol \notin self_pivots
                         /\ pair.token1_symbol \notin self_pivots
    /\ pair.tvl >= args.min_tvl
    /\ pair.volume >= args.min_volume

\* C20: filter_pairs retains a pool if and only if it has no stablecoin leg
\* when no_stables is set, no pivot leg when no_pivots is set, tvl >= min_tvl
\* and volume >= min_volume, for each of the four combinations of the flags;
\* a flag that is off excludes nothing.
C20_FourPredicatesConjunctive ==
    (mode = "filter_pairs" /\ pc = "done") =>
        result = ListResult(SelectSeq(args.pairs, KeptByAllFour))

(***************************************************************************)
(* The failure contract of the Moralis and CoinGecko fetchers.             *)
(***************************************************************************)
FetcherDone == mode \in {"moralis", "coingecko"} /\ pc = "done"

\* the (timestamp, close) of a bar
Bar(r) == [timestamp |-> r.timestamp, close |-> r.close]

\* the bars the upstream sent in this run
ReceivedBars ==
    UNION {{Bar(received[k][i]) : i \in 1..Len(received[k])} :
              k \in 1..Len(received)}

\* C12: when the upstream payload is empty or the request fails, the Moralis
\* and CoinGecko get_price_bars report "no data" and never return a
\* zero-filled or synthesized series: every row of a returned PriceBar was
\* received from the upstream.
C12_NoSynthesizedSeries ==
    FetcherDone =>
        /\ result.kind = "PriceBar" =>
             \A i \in 1..Len(result.value) :
                 Bar(result.value[i]) \in ReceivedBars
        /\ ReceivedBars = {} =>
             (result.kind = "None"
                \/ (result.kind = "PriceBar" /\ result.value = <<>>))

(***************************************************************************)
(* The alignment of the correlation and the beta.                          *)
(***************************************************************************)
Aligning ==
    /\ mode \in {"correlation", "beta"}
    /\ pc = "done"
    /\ mode = "correlation" => args.data_list # <<>>

\* the (timestamp, close) pairs of the usable rows of each input series
InputRows ==
    IF mode = "correlation"
    THEN [j \in 1..Len(args.data_list) |->
            {<<args.data_list[j].df[i].timestamp, args.data_list[j].df[i].close>> :
                i \in 1..Len(args.data_list[j].df)}]
    ELSE [j \in 1..2 |->
            LET df == IF j = 1 THEN args.token_df ELSE args.sol_df
            IN  {<<df[i].timestamp[1], df[i].close[1]>> :
                   i \in {k \in 1..Len(df) :
                            df[k].timestamp # None /\ df[k].close # None}}]

\* the timestamps every input series holds
CommonTimestamps ==
    {t \in 0..MaxT + 1 :
        \A j \in 1..Len(InputRows) : \E row \in InputRows[j] : row[1] = t}

\* C13: the exact-mode alignment keeps exactly the timestamps present in
\* every input series, each once, and each surviving row holds each series'
\* own close at that timestamp.
C13_AlignedIsIntersection ==
    Aligning =>
        /\ {combined.index[i] : i \in 1..Len(combined.index)} = CommonTimestamps
        /\ Len(combined.index) = Cardinality(CommonTimestamps)
        /\ Len(combined.columns) = Len(InputRows)
        /\ \A i \in 1..Len(combined.index) : \A j \in 1..Len(InputRows) :
             <<combined.index[i], combined.values[i][j]>> \in InputRows[j]

\* series over the timestamps {1,2,3} and {2,3,4} aligned to {2,3}
C13_Witness ==
    /\ mode = "correlation"
    /\ pc = "done"
    /\ Len(args.data_list) = 2
    /\ TimestampsOf(args.data_list[1].df) = {1, 2, 3}
    /\ TimestampsOf(args.data_list[2].df) = {2, 3, 4}
    /\ combined.index = <<2, 3>>

(***************************************************************************)
(* Tolerance mode, as the specification describes it.                      *)
(***************************************************************************)
\* the bucket of a timestamp, for buckets of width w
Bucket(t, w) == (t \div w) * w

\* the series j has a value in the bucket b, or in the bucket before it
FilledAt(j, b, w) ==
    \E row \in InputRows[j] : Bucket(row[1], w) \in {b, b - w}

\* the bucket axis from the first to the last observed bucket
BucketAxis(w) ==
    LET observed == {Bucket(row[1], w) :
                        row \in UNION {InputRows[j] : j \in 1..Len(InputRows)}}
    IN  {b \in 0..MaxT + 1 :
            /\ b % w = 0
            /\ \E lo \in observed : lo <= b
            /\ \E hi \in observed : b <= hi}

\* the buckets that survive the tolerance alignment
ToleranceIndex(w) ==
    {b \in BucketAxis(w) : \A j \in 1..Len(InputRows) : FilledAt(j, b, w)}

\* C14: the aligner supports tolerance mode: timestamps are floored to
\* buckets, each series is forward-filled onto the bucket axis with a
\* lookback of exactly one bucket, and a bucket in which some series stays
\* unfilled is dropped; the rows of the aligned table are the buckets that
\* survive (the buckets of the aligned timestamps), for a bucket width of one
\* or two time units.
C14_ToleranceModeSupported ==
    Aligning =>
        \A w \in {1, 2} :
            {Bucket(combined.index[i], w) : i \in 1..Len(combined.index)}
                = ToleranceIndex(w)

(***************************************************************************)
(* The correlation matrix.                                                 *)
(***************************************************************************)
Correlated == mode = "correlation" /\ pc = "done" /\ args.data_list # <<>>

One == [nan |-> FALSE, sign |-> 1, square |-> Float(1)]

\* C15: for a non-empty list whose exact-timestamp overlap has fewer than 2
\* rows the result is a square matrix labelled with the input token symbols
\* in input order, every entry NaN; with 2 or more overlapping rows it is the
\* pairwise correlation of the aligned close columns (symmetric, 1 or NaN on
\* the diagonal, 1 between a series and itself or a positive multiple).
C15_AllNaNBelowTwoRows ==
    Correlated =>
        LET m == result.value
            n == Len(args.data_list)
        IN  /\ result.kind = "DataFrame"
            /\ m.labels = [j \in 1..n |-> args.data_list[j].name]
            /\ DOMAIN m.entries = 1..n
            /\ \A i \in 1..n : DOMAIN m.entries[i] = 1..n
            /\ Cardinality(CommonTimestamps) < 2 =>
                 \A i, j \in 1..n : m.entries[i][j].nan
            /\ Cardinality(CommonTimestamps) >= 2 =>
                 \A i, j \in 1..n :
                    /\ m.entries[i][j] = m.entries[j][i]
                    /\ m.entries[i][j] =
                         Pearson(Column(combined, i), Column(combined, j))
                    /\ i = j => m.entries[i][j] \in {One, NaNCorr}
                    /\ m.entries[i][j].nan <=>
                         \/ \A k \in 1..Len(combined.index) :
                              combined.values[k][i] = combined.values[1][i]
                         \/ \A k \in 1..Len(combined.index) :
                              combined.values[k][j] = combined.values[1][j]
                    /\ Column(combined, i) = Column(combined, j) =>
                         m.entries[i][j] \in {One, NaNCorr}

\* three series that overlap on one timestamp gave an all-NaN matrix
C15_Witness ==
    /\ Correlated
    /\ Len(args.data_list) = 3
    /\ Cardinality(CommonTimestamps) = 1
    /\ \A j \in 1..3 : Len(args.data_list[j].df) >= 2
    /\ \A i, j \in 1..3 : result.value.entries[i][j].nan

(***************************************************************************)
(* The beta.                                                               *)
(***************************************************************************)
BetaDone == mode = "beta" /\ pc = "done"

\* the percentage returns of the column j of the aligned table are all equal
\* (c[i+1] / c[i] is the same ratio for every i)
FlatReturns(j) ==
    \A i, k \in 1..Len(combined.index) - 1 :
        combined.values[i + 1][j] * combined.values[k][j]
            = combined.values[k + 1][j] * combined.values[i][j]

VolumeDone == mode = "volume" /\ pc = "done"

\* the rows of the frame handed over that have a timestamp and the field f
UsableRows(f) ==
    {i \in 1..Len(args.df) :
        args.df[i].timestamp # None /\ args.df[i][f] # None}

\* the rows of the window of W days that ends at the latest usable row
InWindow(f, W) ==
    {i \in UsableRows(f) :
        \A k \in UsableRows(f) :
            args.df[i].timestamp[1] >= args.df[k].timestamp[1] - 24 * W}

RECURSIVE TotalVolume(_)
TotalVolume(rows) ==
    IF rows = {} THEN 0
    ELSE LET i == CHOOSE i \in rows : TRUE
         IN  args.df[i].volume[1] + TotalVolume(rows \ {i})

\* the metrics of the window of W days are those of the total volume: the
\* average is total / W, the fees are 0.003 of it, the ratios divide by tvl
MetricsOfTotal(W, total) ==
    LET m == result.value[W]
    IN  /\ Times(m.avg_daily_volume, Float(W)) = Float(total)
        /\ Times(m.avg_daily_fees, Float(1000)) =
             Times(m.avg_daily_volume, Float(3))

RatiosOverTvl(W) ==
    LET m == result.value[W]
    IN  /\ m.avg_daily_fee_to_tvl_ratio # None
        /\ m.avg_daily_volume_to_tvl_ratio # None
        /\ Times(m.avg_daily_fee_to_tvl_ratio[1], Float(args.tvl))
             = m.avg_daily_fees
        /\ Times(m.avg_daily_volume_to_tvl_ratio[1], Float(args.tvl))
             = m.avg_daily_volume

RatiosUndefined(W) ==
    /\ result.value[W].avg_daily_fee_to_tvl_ratio = None
    /\ result.value[W].avg_daily_volume_to_tvl_ratio = None

\* C16 (as stated): for each W in {3, 7, 14}, total is the volume of the rows
\* at or after (latest timestamp - W days), rows without a usable volume
\* contributing nothing; avg_daily_volume = total / W; avg_daily_fees =
\* avg_daily_volume * fee_rate; the two ratios are the fees and the volume
\* over tvl when tvl > 0 and None when tvl <= 0.
C16_WindowMetrics ==
    VolumeDone =>
        /\ DOMAIN result.value = Periods
        /\ \A W \in Periods :
             /\ MetricsOfTotal(W, TotalVolume(InWindow("volume", W)))
             /\ args.tvl > 0 => RatiosOverTvl(W)
             /\ args.tvl <= 0 => RatiosUndefined(W)

\* C16 (amended): as stated when the frame has at least one row with a usable
\* timestamp and volume, the latest timestamp being taken over these rows;
\* when it has none, the volume and the fees are 0 and both ratios are None
\* whatever the tvl.
C16_WindowMetricsOfUsableRows ==
    VolumeDone =>
        /\ DOMAIN result.value = Periods
        /\ \A W \in Periods :
             /\ MetricsOfTotal(W, TotalVolume(InWindow("volume", W)))
             /\ (args.tvl > 0 /\ UsableRows("volume") # {}) => RatiosOverTvl(W)
             /\ (args.tvl <= 0 \/ UsableRows("volume") = {}) =>
                  RatiosUndefined(W)

\* a frame whose 3-day window starts exactly at a row and leaves out an older
\* one, with a positive tvl
C16_Witness ==
    /\ VolumeDone
    /\ args.tvl > 0
    /\ Cardinality(InWindow("volume", 3)) = 2
    /\ Cardinality(InWindow("volume", 14)) = 3
    /\ result.value[3].avg_daily_volume = Float(1)
    /\ result.value[3].avg_daily_fee_to_tvl_ratio # None

(***************************************************************************)
(* The volatility.                                                         *)
(***************************************************************************)
VolatilityDone == mode = "volatility" /\ pc = "done"

\* the frame has the columns a series has: 'timestamp' and 'close' ('price')
HasSeriesColumns ==
    "timestamp" \in args.columns /\ args.columns \cap {"close", "price"} # {}

\* C17: for every window W in {3, 7, 14}, a window that holds fewer than 2
\* usable (timestamp, close) rows, the empty series included, gives NaN,
\* never 0, and the call does not raise.
C17_UndefinedBelowTwoRows ==
    (VolatilityDone /\ HasSeriesColumns) =>
        /\ result.kind = "dict"
        /\ DOMAIN result.value = Periods
        /\ \A W \in Periods :
             Cardinality(InWindow("close", W)) < 2 =>
                /\ result.value[W].nan
                /\ result.value[W] # Volatility(0)

\* a series of three usable rows whose 3-day window holds one row only
C17_Witness ==
    /\ VolatilityDone
    /\ HasSeriesColumns
    /\ Cardinality(UsableRows("close")) = 3
    /\ Cardinality(InWindow("close", 3)) = 1
    /\ result.value[3].nan
    /\ ~result.value[14].nan

\* the usable rows of the window have pairwise different timestamps, and the
\* closes of any three rows next to each other in time grow by one ratio
ConstantRatio(W) ==
    LET rows == InWindow("close", W)
        ts(i) == args.df[i].timestamp[1]
        c(i) == args.df[i].close[1]
        Next2(i, j) == ts(i) < ts(j) /\ \A k \in rows : ~(ts(i) < ts(k) /\ ts(k) < ts(j))
    IN  /\ \A i, j \in rows : ts(i) = ts(j) => i = j
        /\ \A i, j, k \in rows :
             (Next2(i, j) /\ Next2(j, k)) => c(j) * c(j) = c(i) * c(k)

\* C18 (as stated): for a window of 3 or more rows whose consecutive closes
\* all grow by the same ratio (100, 110, 121 at three consecutive hourly
\* bars), the sample standard deviation of the log returns is 0 and the
\* annualized volatility of that window is exactly 0.
C18_ConstantRatioGivesZero ==
    (VolatilityDone /\ HasSeriesColumns) =>
        \A W \in Periods :
            (Cardinality(InWindow("close", W)) >= 3 /\ ConstantRatio(W)) =>
                result.value[W] = Volatility(0)

\* C18 (amended): for a window of exactly 3 rows whose closes grow by the same
\* ratio (100, 110, 121 at three consecutive hourly bars), the two log
\* returns are equal and the annualized volatility of that window is exactly
\* 0; so it is for a longer window when the mean of its equal log returns is
\* computed exactly, and it is never NaN.
C18_ThreeRowsGiveZero ==
    (VolatilityDone /\ HasSeriesColumns) =>
        \A W \in Periods :
            (Cardinality(InWindow("close", W)) >= 3 /\ ConstantRatio(W)) =>
                /\ ~result.value[W].nan
                /\ (Cardinality(InWindow("close", W)) = 3 \/ args.mean_exact)
                      => result.value[W] = Volatility(0)

\* the closes 100, 110, 121 at the hours 0, 1, 2
C18_Witness ==
    /\ VolatilityDone
    /\ ~args.mean_exact
    /\ args.df = <<Row(Some(0), Some(100)), Row(Some(1), Some(110)),
                   Row(Some(2), Some(121))>>
    /\ args.columns = {"timestamp", "close"}
    /\ result.value[3] = Volatility(0)

(***************************************************************************)
(* The filters of fetch_liquidity_pools.                                   *)
(***************************************************************************)
PoolsDone == mode = "pools" /\ pc = "done"

\* the pools of the listing: the pairs of the records that could be read
ListedPairs ==
    LET read == SelectSeq(pools_data, LAMBDA pool : parse_pool(pool).exc = "")
    IN  [i \in 1..Len(read) |-> parse_pool(read[i]).pair]

MeetsMinimums(pair) ==
    pair.tvl >= args.min_tvl /\ pair.volume >= args.min_volume

HasLegIn(pair, symbols) ==
    pair.token0_symbol \in symbols \/ pair.token1_symbol \in symbols

MeetsAllFour(pair) ==
    /\ MeetsMinimums(pair)
    /\ args.no_pivots => ~HasLegIn(pair, pivots)
    /\ args.no_stables => ~HasLegIn(pair, stablecoins)

\* C21: fetch_liquidity_pools never returns a pool whose TVL is below min_tvl
\* or whose volume is below min_volume, whatever no_pivots, no_stables and
\* utility_pairs are; with utility_pairs off it returns a pool if and only
\* if the pool meets both minimums, has no pivot leg when no_pivots is set
\* and no stablecoin leg when no_stables is set.
C21_MinimumsUnderEveryFlag ==
    PoolsDone =>
        /\ result.kind = "list"
        /\ \A i \in 1..Len(result.value) : MeetsMinimums(result.value[i])
        /\ ~args.utility_pairs =>
              result.value = SelectSeq(ListedPairs, MeetsAllFour)

\* the pool of TVL 5000 with two pivot legs was listed and left out under
\* min_tvl = 10000 with utility_pairs on
C21_Witness ==
    /\ PoolsDone
    /\ args.utility_pairs
    /\ args.min_tvl = 10000
    /\ \E i \in 1..Len(pools_data) : pools_data[i].address = "p5"
    /\ \A i \in 1..Len(result.value) : result.value[i].address # "p5"

BothLegsPivots(pair) ==
    pair.token0_symbol \in pivots /\ pair.token1_symbol \in pivots

UtilityPair(pair) == BothLegsPivots(pair) /\ MeetsMinimums(pair)

\* C22: with utility_pairs on, a pool is returned if and only if both its
\* legs are in the pivot set and it meets min_tvl and min_volume, whatever
\* no_pivots and no_stables are; with utility_pairs off and no_pivots on, no
\* pool with both legs in the pivot set is returned.
C22_UtilityPairsOnly ==
    PoolsDone =>
        /\ args.utility_pairs =>
              result.value = SelectSeq(ListedPairs, UtilityPair)
        /\ (~args.utility_pairs /\ args.no_pivots) =>
              \A i \in 1..Len(result.value) :
                  ~BothLegsPivots(result.value[i])

\* the SOL/JUP pool was returned under utility_pairs with no_pivots and
\* no_stables on
C22_Witness ==
    /\ PoolsDone
    /\ args.utility_pairs
    /\ args.no_pivots
    /\ args.no_stables
    /\ \E i \in 1..Len(result.value) : result.value[i].address = "p3"

(***************************************************************************)
(* Malformed records of a listing.                                         *)
(***************************************************************************)
MeteoraDone == mode = "meteora" /\ pc = "done" /\ outcome.body.is_list

\* the pairs of the records of a listing that are objects with every field
WellFormedPairs(listing, pair_of(_)) ==
    LET well == SelectSeq(listing, LAMBDA r : r.raw = "object")
    IN  [i \in 1..Len(well) |-> pair_of(well[i])]

PoolPairOf(pool) == parse_pool(pool).pair
MeteoraPairOf(r) == meteora_pair(r).pair
PassesFilters(pair) == Retained(pair, args)

\* C23: when a record of an upstream listing is malformed (a field missing
\* or of an unusable type), fetch_liquidity_pools of the GeckoTerminal and
\* the Meteora client does not raise and returns the pairs of the well-formed
\* records that pass the filters, in upstream order, and nothing else.
C23_MalformedRecordSkipped ==
    /\ PoolsDone =>
          result = ListResult(SelectSeq(WellFormedPairs(pools_data, PoolPairOf),
                                        PassesFilters))
    /\ MeteoraDone =>
          result = ListResult(WellFormedPairs(received[1], MeteoraPairOf))

(***************************************************************************)
(* The delay between two pages.                                            *)
(***************************************************************************)
Paginating == mode \in {"pools", "bars", "moralis"}

\* C24: every paginated fetch (_get_all_pages, the backward pagination of
\* get_price_bars, the Moralis cursor pagination) lets a fixed delay pass
\* between two consecutive page requests of a run: no page request is sent
\* at the time the previous one was.
C24_DelayBetweenPages ==
    Paginating =>
        \A i \in 1..Len(issued) - 1 :
            /\ issued[i + 1] > issued[i]
            /\ mode = "pools" => issued[i + 1] - issued[i] >= PAGE_DELAY
            /\ mode = "bars" => issued[i + 1] - issued[i] >= BARS_DELAY

\* the GeckoTerminal loops keep their delay
GeckoDelayBetweenPages ==
    mode \in {"pools", "bars"} => C24_DelayBetweenPages

(***************************************************************************)
(* The backward pagination against a misbehaving upstream.                 *)
(***************************************************************************)
\* every request so far was answered with a full page of limit bars whose
\* oldest bar is newer than start_timestamp
OnlyFullNewerPages ==
    /\ sent # <<>>
    /\ \A k \in 1..Len(received) : FullAndNewer(received[k])

\* C25: the backward-pagination loop of get_price_bars has no iteration cap:
\* as long as the upstream answers every request with a full page whose
\* oldest bar is newer than start_timestamp (the same page every time, for
\* example), the loop is at its next request, however many it has made, and
\* the operation has not returned.
C25_NoIterationCap ==
    (InBars /\ OnlyFullNewerPages) =>
        /\ pc \in {"bars_sleep", "bars_request"}
        /\ result = NoResult
        /\ Len(received) = Len(sent)

\* the same full page was received for every request the model follows, and
\* the loop is at its next request
C25_Witness ==
    /\ InBars
    /\ ~args.honest
    /\ OnlyFullNewerPages
    /\ Len(sent) = MaxRequests
    /\ \A k \in 1..Len(received) : received[k] = received[1]
    /\ pc = "bars_request"

(***************************************************************************)
(* A page request that fails in the middle of a run.                       *)
(***************************************************************************)
\* the last request failed in transport or was answered with 401
LastRequestFailed == ~outcome.transport_ok \/ outcome.status = 401

RunDone ==
    /\ \/ InPageLoop
       \/ InBars
    /\ pc = "done"

\* what the run returns when the upstream ends, at the point of the last
\* request, with an empty page instead
AfterEmptyPage ==
    IF mode = "pools"
    THEN ListResult(Pairs(Flatten(received), args))
    ELSE price_bars_result(Flatten(received), OhlcvDict(<<>>), args)

\* C26 (as stated): when a page request fails (transport error or 401) after
\* at least one page was accumulated, _get_all_pages and get_price_bars
\* return the rows accumulated so far without a failure indication, and the
\* result is identical to the one returned when the upstream ended with an
\* empty page at the same point; when the very first request fails, the
\* result equals that of an upstream with zero results.
C26_FailureLikeEmptyPage ==
    (RunDone /\ LastRequestFailed) =>
        /\ raised = ""
        /\ result = AfterEmptyPage
        /\ Len(sent) = 1 => result = NoDataResult

\* the rows a run returned: the pairs of a listing, the frame of a PriceBar
RowsOf(r) == IF r.kind \in {"list", "PriceBar"} THEN r.value ELSE <<>>

\* C26 (amended): as stated, for the rows: the pairs of fetch_liquidity_pools
\* and the frame of get_price_bars are those returned after an empty page at
\* the same point, and the kind of the result is the same.  The PriceBar of
\* get_price_bars is named after the last response, which after a failure
\* carries no 'meta': its symbols are then the defaults BASE and QUOTE.
C26_FailureKeepsAccumulatedRows ==
    (RunDone /\ LastRequestFailed) =>
        /\ raised = ""
        /\ result.kind = AfterEmptyPage.kind
        /\ RowsOf(result) = RowsOf(AfterEmptyPage)
        /\ result.kind = "PriceBar" =>
              /\ result.base_token = "BASE"
              /\ result.token_symbol = "QUOTE"
        /\ Len(sent) = 1 => result = NoDataResult

\* the second request of get_price_bars failed in transport and the rows of
\* the first page were returned
C26_Witness ==
    /\ InBars
    /\ pc = "done"
    /\ Len(sent) = 2
    /\ ~outcome.transport_ok
    /\ result.kind = "PriceBar"
    /\ result.value # <<>>

(***************************************************************************)
(* The cursor pagination of the Moralis fetcher.                           *)
(***************************************************************************)
MoralisDone == mode = "moralis" /\ pc = "done"

\* the answer is a page with a non-empty 'result' and a continuation cursor
NamesNextPage(o) ==
    /\ o.transport_ok
    /\ o.status = 200
    /\ o.body.has_result
    /\ o.body.result # <<>>
    /\ o.body.cursor # ""

\* the answer is a page with a non-empty 'result'
HasData(o) ==
    /\ o.transport_ok
    /\ o.status = 200
    /\ o.body.has_result
    /\ o.body.result # <<>>

\* C27: the Moralis pagination issues a further request if and only if the
\* page just received has a non-empty 'result' and a continuation cursor, and
\* passes that cursor on the next request; it stops at the first page with no
\* data or no cursor; there is no page cap; when it stops normally with data,
\* the returned series holds the rows of all received pages in page order.
C27_CursorPagination ==
    MoralisDone =>
        LET answers == args.responses
            n == Len(sent)
        IN  /\ n >= 1
            /\ n <= Len(answers)
            /\ sent[1] = ""
            /\ \A k \in 1..n - 1 :
                 /\ NamesNextPage(answers[k])
                 /\ sent[k + 1] = answers[k].body.cursor
            /\ ~NamesNextPage(answers[n])
            /\ LET rows == Flatten([k \in 1..n |-> answers[k].body.result])
               IN  (answers[n].transport_ok /\ answers[n].status = 200
                      /\ rows # <<>>) => result = PriceBarResult(rows)

\* a run over as many pages as the model follows, each page under the cursor
\* of the page before, that returned the rows of all of them
C27_Witness ==
    /\ MoralisDone
    /\ Len(sent) = MaxMorePages + 1
    /\ sent[2] = "c2"
    /\ HasData(outcome)
    /\ result.kind = "PriceBar"
    /\ Len(result.value) > Len(outcome.body.result)

(***************************************************************************)
(* The log of the rate limiter.                                            *)
(***************************************************************************)
\* C28: after any sequence of _make_request calls the call-timestamp log
\* holds at most rate_limit + 1 entries, held at most rate_limit entries
\* right after the purge, is in non-decreasing order (calls[0] is the
\* oldest), and every call, successful or failed, appended exactly one
\* entry: the log is the purged log followed by the time of the call.
C28_LogBoundedAndOrdered ==
    /\ Len(calls) <= rate_limit + 1
    /\ Len(check.kept) <= rate_limit
    /\ \A i, j \in 1..Len(calls) : i <= j => calls[i] <= calls[j]
    /\ calls # <<>> => calls = Append(check.kept, check.current_time)

\* a failed call that slept left the log at rate_limit + 1 entries
C28_Witness ==
    /\ mode = "direct"
    /\ Len(calls) = rate_limit + 1
    /\ check.slept > 0
    /\ ~outcome.transport_ok
    /\ calls[1] < calls[Len(calls)]

(***************************************************************************)
(* The cursor of the backward pagination.                                  *)
(***************************************************************************)
\* every page held only bars at or before the before_timestamp of its request
AtOrBeforeCursor ==
    \A k \in 1..Len(received) :
        sent[k] # None =>
            \A i \in 1..Len(received[k]) : received[k][i] <= sent[k][1]

\* the last bar of every page is its oldest
OldestLast ==
    \A k \in 1..Len(received) :
        \A i \in 1..Len(received[k]) : received[k][i] >= Oldest(received[k])

\* the before_timestamp sent goes down from each request to the next, and
\* the first request carries end_timestamp (nothing when there is no end)
CursorDecreases ==
    /\ sent # <<>> => sent[1] = args.end_timestamp
    /\ \A k \in 1..Len(sent) - 1 :
         /\ sent[k + 1] # None
         /\ sent[k] # None => sent[k + 1][1] < sent[k][1]

\* no bar was received in two different pages
PagesDisjoint ==
    \A j, k \in 1..Len(received) :
        j # k =>
            \A a \in 1..Len(received[j]), b \in 1..Len(received[k]) :
                received[j][a] # received[k][b]

\* C29 (as stated): when the upstream returns for each request only bars at
\* or before the before_timestamp it was given, the before_timestamp sent
\* strictly decreases from each request to the next, no bar is received in
\* two different pages, and the first request carries before_timestamp =
\* end_timestamp (none when no end is given).
C29_CursorStrictlyDecreases ==
    (InBars /\ AtOrBeforeCursor) => (CursorDecreases /\ PagesDisjoint)

\* C29 (amended): as stated, for an upstream that in addition orders each
\* page so that its last bar is its oldest (newest first); without that
\* order the before_timestamp still strictly decreases, but a bar can be
\* received in two pages.
C29_CursorBelowOldestBar ==
    /\ (InBars /\ AtOrBeforeCursor) => CursorDecreases
    /\ (InBars /\ AtOrBeforeCursor /\ OldestLast) => PagesDisjoint

\* a run of three requests under an end_timestamp, every page within its
\* cursor and oldest bar last
C29_Witness ==
    /\ InBars
    /\ pc = "done"
    /\ args.end_timestamp # None
    /\ Len(sent) = 3
    /\ AtOrBeforeCursor
    /\ OldestLast
    /\ \A k \in 1..3 : received[k] # <<>>

(***************************************************************************)
(* C30: what an analysis leaves of the frames it was handed.               *)
(***************************************************************************)
\* an analytics operation has returned
AnalyticsDone ==
    /\ mode \in {"volume", "volatility", "beta", "correlation"}
    /\ pc = "done"

\* the frames the caller passed in, as they were before the call
FramesPassedIn ==
    CASE mode \in {"volume", "volatility"} ->
           <<CallerFrame(args.df, args.timestamp_dtype)>>
      [] mode = "beta" ->
           <<CallerFrame(args.token_df, args.timestamp_dtype),
             CallerFrame(args.sol_df, args.timestamp_dtype)>>
      [] OTHER ->
           [j \in 1..Len(args.data_list) |->
              CallerFrame(args.data_list[j].df, args.timestamp_dtype)]

\* C30: after calculate_volume_and_fees_from_two,
\* calculate_cross_price_volatility_from_df, compute_beta_from_dataframes or
\* compute_correlation_matrix_from_dataframes returned, each DataFrame the
\* caller passed in has the same rows, columns and values as before the call.
C30_InputFramesUnchanged == AnalyticsDone => frames = FramesPassedIn

\* the correlation alone leaves the frames of its caller as they were
CorrelationLeavesFrames ==
    (AnalyticsDone /\ mode = "correlation") => frames = FramesPassedIn

====
